---- MODULE Spec2Model ----
(***************************************************************************)
(* Recommendation core of Vacae-Backend (recommendation_engine):           *)
(* preference scoring, the greedy itinerary builder, the generate / refine *)
(* controllers and the preference learner.                                 *)
(*                                                                         *)
(* Numbers.  Scores are JavaScript floats; they are kept here as integers  *)
(* in units of 1/ScoreUnit.  Times are minutes since midnight; an "HH:MM"  *)
(* string is the pair <<HH, MM>>.  A location is a latitude on one         *)
(* meridian, counted in arcs of LocUnitMetres metres, so that the          *)
(* Haversine distance of two locations is |a - b| * LocUnitMetres.         *)
(***************************************************************************)
EXTENDS Integers, Sequences, FiniteSets, TLC

VARIABLES
    bIn,        \* createOptimizedItinerary: its arguments
    bSt,        \* createOptimizedItinerary: the locals of its loop
    bPc,        \* createOptimizedItinerary: "idle", "loop", "done"
    pIn,        \* calculatePreferenceScore: its arguments (destinations, profile)
    pOut,       \* calculatePreferenceScore: its results
    userPreferences, \* table user_preferences: userId -> record or NoRecord
    profileStore,    \* the profile service: userId -> stored preferences
    recommendations, \* table recommendations: a sequence of rows
    nextItineraryId, \* the next uuidv4() itinerary id
    responses,       \* itineraryId -> the items generateRecommendations returned
    userTokens,      \* table user_tokens: the users with a stored token
    nodeEnv,         \* config.NODE_ENV
    redisEnabled,    \* config.REDIS_ENABLED
    feedbackCalls,   \* the number of saveFeedback requests handled
    lastCall,        \* the last request handled and its response
    learnerRuns,     \* the learner tasks under way: user -> position and locals
    learnedRows,     \* table user_preferences, by user of a task under way
    profileDocs,     \* the profile service, by user of a task under way
    feedbackRows,    \* the rows with feedback of table recommendations, by user
    destinationCache, \* the cache: key destinations:<ids> -> the list stored
    cIn,        \* ContextFilter: the destination and the context given to a method
    cOut        \* ContextFilter: what the method made of the destination

vars == <<bIn, bSt, bPc, pIn, pOut, userPreferences, profileStore,
          recommendations, nextItineraryId, responses, userTokens, nodeEnv,
          redisEnabled, feedbackCalls, lastCall, learnerRuns, learnedRows,
          profileDocs, feedbackRows, destinationCache, cIn, cOut>>

learnerVars ==
    <<learnerRuns, learnedRows, profileDocs, feedbackRows, destinationCache>>

----------------------------------------------------------------------------
(* Bounds of the model *)

\* the longest candidate list given to createOptimizedItinerary
MaxCands == 3
\* the number of itineraries generated
MaxItineraries == 1
\* the number of saveFeedback requests
MaxFeedback == 1

----------------------------------------------------------------------------
(* JavaScript values *)

\* NaN, the result of arithmetic on undefined
NaN == -1000000
\* undefined, a property an object does not have
Undefined == -1000001
\* a location that is undefined or null
NoLocation == -1000002

IsNum(x) == x # NaN /\ x # Undefined

\* a + b
Add(a, b) == IF IsNum(a) /\ IsNum(b) THEN a + b ELSE NaN

\* a > b : false when either side is NaN
Gt(a, b) == IsNum(a) /\ IsNum(b) /\ a > b

\* a <= b : false when either side is NaN
Le(a, b) == IsNum(a) /\ IsNum(b) /\ a <= b

\* x || d for a number x: 0, NaN and undefined are falsy
OrDefault(x, d) == IF x = 0 \/ ~IsNum(x) THEN d ELSE x

Abs(x) == IF x < 0 THEN -x ELSE x

\* Math.ceil(a / b) for a >= 0, b > 0
CeilDiv(a, b) == (a + b - 1) \div b

----------------------------------------------------------------------------
(* Units *)

\* one unit of score is 1/ScoreUnit
ScoreUnit == 600 * 10 * 1000

\* metres of arc between two consecutive latitudes of the model
LocUnitMetres == 500

----------------------------------------------------------------------------
(* config/settings.js *)

\* DISTANCE_PENALTY_FACTOR = 0.01 per minute of travel
DISTANCE_PENALTY_FACTOR == ScoreUnit \div 100

----------------------------------------------------------------------------
(* The itinerary builder (constraintSolver) *)

\* timeToMinutes("HH:MM")
timeToMinutes(t) == t[1] * 60 + t[2]

\* minutesToTime(minutes): "HH:MM", or "NaN:NaN"
minutesToTime(m) == IF IsNum(m) THEN <<m \div 60, m % 60>> ELSE <<NaN, NaN>>

\* an absent time string (undefined)
NoTime == <<>>

\* startTime || '09:00'
DefaultStart == <<9, 0>>
\* endTime || '17:00'
DefaultEnd == <<17, 0>>

TimeOr(t, d) == IF t = NoTime THEN d ELSE t

\* the speed in km/h by transport mode
speedKmPerHour(mode) ==
    CASE mode = "walking" -> 5
      [] mode = "transit" -> 15
      [] mode = "driving" -> 30
      [] OTHER -> 10

\* calculateDistance, in metres, of two latitudes on one meridian
calculateDistance(a, b) == Abs(a - b) * LocUnitMetres

\* estimateTravelTime(fromLocation, toLocation, mode), minutes
estimateTravelTime(from, to, mode) ==
    IF from = NoLocation \/ to = NoLocation
    THEN 30
    ELSE CeilDiv(calculateDistance(from, to) * 60, speedKmPerHour(mode) * 1000) + 5

\* a break at any hour
shouldAddBreakAlways(m) == IsNum(m)

\* shouldAddBreak(currentTimeMinutes)
shouldAddBreak(m) ==
    IsNum(m) /\ (m \div 60) >= 11 /\ (m \div 60) <= 13

\* The filter of findBestNextDestination: the candidate is skipped when
\* currentTime + travelTime + visitDuration > endTime
PassesFilter(dest, loc, now, endM, mode) ==
    ~Gt(Add(Add(now, estimateTravelTime(loc, dest.location, mode)),
            dest.visitDuration), endM)

\* the score alone, without the travel penalty
combinedScoreNoPenalty(dest, loc, mode) == dest.score

\* combinedScore = dest.score - travelTime * DISTANCE_PENALTY_FACTOR
combinedScore(dest, loc, mode) ==
    dest.score - estimateTravelTime(loc, dest.location, mode) * DISTANCE_PENALTY_FACTOR

\* The loop of findBestNextDestination over destinations[i..], carrying
\* bestIndex and bestCombinedScore.
RECURSIVE findBestFrom(_, _, _, _, _, _, _, _)
findBestFrom(dests, i, bestIndex, best, loc, now, endM, mode) ==
    IF i > Len(dests) THEN bestIndex
    ELSE IF ~PassesFilter(dests[i], loc, now, endM, mode)
         THEN findBestFrom(dests, i + 1, bestIndex, best, loc, now, endM, mode)
         ELSE IF combinedScore(dests[i], loc, mode) > best
              THEN findBestFrom(dests, i + 1, i,
                                combinedScore(dests[i], loc, mode),
                                loc, now, endM, mode)
              ELSE findBestFrom(dests, i + 1, bestIndex, best, loc, now, endM, mode)

\* the best candidate by combined score among all of them, fitting or not
RECURSIVE bestOfAllFrom(_, _, _, _, _, _)
bestOfAllFrom(dests, i, bestIndex, best, loc, mode) ==
    IF i > Len(dests) THEN bestIndex
    ELSE IF combinedScore(dests[i], loc, mode) > best
         THEN bestOfAllFrom(dests, i + 1, i, combinedScore(dests[i], loc, mode),
                            loc, mode)
         ELSE bestOfAllFrom(dests, i + 1, bestIndex, best, loc, mode)

findBestUnfiltered(dests, loc, now, endM, mode) ==
    bestOfAllFrom(dests, 1, 0, -ScoreUnit, loc, mode)

\* findBestNextDestination: the index (from 1) of the best candidate, 0 for
\* the -1 of the code.  bestCombinedScore starts at -1.
findBestNextDestination(dests, loc, now, endM, mode) ==
    findBestFrom(dests, 1, 0, -ScoreUnit, loc, now, endM, mode)

\* the array without its last element, whatever the index
SpliceLast(s, i) == SubSeq(s, 1, Len(s) - 1)

\* the array left as it is
SpliceNone(s, i) == s

\* array.splice(i, 1)
Splice(s, i) == [k \in 1..(Len(s) - 1) |-> IF k < i THEN s[k] ELSE s[k + 1]]

\* the position at which x goes into the sorted sequence s so that the sort
\* (a, b) => b.score - a.score stays stable: after every element that is not
\* smaller
RECURSIVE InsertSorted(_, _)
InsertSorted(s, x) ==
    IF s = <<>> THEN <<x>>
    ELSE IF s[Len(s)].score >= x.score
         THEN Append(s, x)
         ELSE Append(InsertSorted(SubSeq(s, 1, Len(s) - 1), x), s[Len(s)])

\* [...list].sort((a, b) => b.score - a.score): stable, by descending score
RECURSIVE SortByScore(_)
SortByScore(s) ==
    IF s = <<>> THEN <<>>
    ELSE InsertSorted(SortByScore(SubSeq(s, 1, Len(s) - 1)), s[Len(s)])

\* An item of the itinerary: a stop (the code's stop has no type property)
Stop(dest, start, travel) ==
    [type |-> "stop",
     destinationId |-> dest.destinationId,
     startTime |-> minutesToTime(start),
     endTime |-> minutesToTime(Add(start, dest.visitDuration)),
     travelTimeFromPrevious |-> travel,
     score |-> dest.score,
     duration |-> Undefined]

\* the duration of the lunch break
breakDuration == 60

\* An item of the itinerary: a break
Break(start) ==
    [type |-> "break",
     destinationId |-> Undefined,
     startTime |-> minutesToTime(start),
     endTime |-> minutesToTime(Add(start, breakDuration)),
     travelTimeFromPrevious |-> Undefined,
     score |-> Undefined,
     duration |-> breakDuration]

\* The locals of createOptimizedItinerary before its loop
LoopInit(scored, ctx) ==
    [remaining |-> SortByScore(scored),
     currentTime |-> timeToMinutes(TimeOr(ctx.startTime, DefaultStart)),
     currentLocation |-> ctx.startLocation,
     itinerary |-> <<>>]

endMinutes(ctx) == timeToMinutes(TimeOr(ctx.endTime, DefaultEnd))

\* The loop ends: no candidate is left, or findBestNextDestination found none
LoopExits(st, ctx) ==
    \/ Len(st.remaining) = 0
    \/ findBestNextDestination(st.remaining, st.currentLocation, st.currentTime,
                               endMinutes(ctx), ctx.transportMode) = 0

\* a break pushed without looking at the end of the window
BreakAfterUnbounded(rest, now, endM) ==
    IF Len(rest) > 0 /\ shouldAddBreak(now) THEN <<Break(now)>> ELSE <<>>

\* the break pushed after a stop, when there is one
BreakAfter(rest, now, endM) ==
    IF Len(rest) > 0 /\ shouldAddBreak(now) /\ Le(Add(now, breakDuration), endM)
    THEN <<Break(now)>>
    ELSE <<>>

\* an iteration that does not move currentTime past the break it pushes
LoopBodyBreakNotCounted(st, ctx) ==
    LET endM == endMinutes(ctx)
        mode == ctx.transportMode
        idx == findBestNextDestination(st.remaining, st.currentLocation,
                                       st.currentTime, endM, mode)
        nextDest == st.remaining[idx]
        travelTime == estimateTravelTime(st.currentLocation, nextDest.location, mode)
        arrive == Add(st.currentTime, travelTime)
        rest == Splice(st.remaining, idx)
        leave == Add(arrive, nextDest.visitDuration)
        brk == BreakAfter(rest, leave, endM)
    IN  IF Gt(Add(arrive, nextDest.visitDuration), endM)
        THEN [st EXCEPT !.remaining = rest, !.currentTime = arrive]
        ELSE [remaining |-> rest,
              currentTime |-> leave,
              currentLocation |-> nextDest.location,
              itinerary |-> st.itinerary \o <<Stop(nextDest, arrive, travelTime)>> \o brk]

\* One iteration of the loop, from a state in which it does not exit
LoopBody(st, ctx) ==
    LET endM == endMinutes(ctx)
        mode == ctx.transportMode
        idx == findBestNextDestination(st.remaining, st.currentLocation,
                                       st.currentTime, endM, mode)
        nextDest == st.remaining[idx]
        travelTime == estimateTravelTime(st.currentLocation, nextDest.location, mode)
        arrive == Add(st.currentTime, travelTime)
        rest == Splice(st.remaining, idx)
        leave == Add(arrive, nextDest.visitDuration)
        brk == BreakAfter(rest, leave, endM)
    IN  IF Gt(Add(arrive, nextDest.visitDuration), endM)
        THEN [st EXCEPT !.remaining = rest, !.currentTime = arrive]
        ELSE [remaining |-> rest,
              currentTime |-> IF brk = <<>> THEN leave ELSE Add(leave, breakDuration),
              currentLocation |-> nextDest.location,
              itinerary |-> st.itinerary \o <<Stop(nextDest, arrive, travelTime)>> \o brk]

RECURSIVE RunLoop(_, _)
RunLoop(st, ctx) ==
    IF LoopExits(st, ctx) THEN st ELSE RunLoop(LoopBody(st, ctx), ctx)

\* createOptimizedItinerary(scoredDestinations, context): the itinerary
createOptimizedItinerary(scored, ctx) == RunLoop(LoopInit(scored, ctx), ctx).itinerary

----------------------------------------------------------------------------
(* The destination catalogue (destination service) *)

Categories == {"museums", "parks", "nightlife"}

\* The destinations the destination service holds.  location is the
\* latitude of the GeoJSON point; attributes.indoor and
\* attributes.bestTimeOfDay are Undefined where the record has none.
Catalogue ==
    [d \in {1, 2, 3, 4} |->
        CASE d = 1 -> [id |-> 1, categories |-> {"museums"}, costLevel |-> 3,
                       visitDuration |-> 90, popularity |-> 4, location |-> 2,
                       indoor |-> 1, bestTimeOfDay |-> "morning"]
          [] d = 2 -> [id |-> 2, categories |-> {"parks", "museums"}, costLevel |-> 1,
                       visitDuration |-> 45, popularity |-> 5, location |-> 5,
                       indoor |-> 0, bestTimeOfDay |-> "none"]
          [] d = 3 -> [id |-> 3, categories |-> {"nightlife"}, costLevel |-> 5,
                       visitDuration |-> 200, popularity |-> 0, location |-> 8,
                       indoor |-> Undefined, bestTimeOfDay |-> "evening"]
          [] d = 4 -> [id |-> 4, categories |-> {"museums"}, costLevel |-> 3,
                       visitDuration |-> 90, popularity |-> 4, location |-> 100,
                       indoor |-> 1, bestTimeOfDay |-> "morning"]]

DestinationIds == DOMAIN Catalogue

\* The elements of the sequence s that satisfy Keep, in order
RECURSIVE SelectIds(_, _)
SelectIds(s, keep) ==
    IF s = <<>> THEN <<>>
    ELSE IF s[1] \in keep
         THEN <<s[1]>> \o SelectIds(Tail(s), keep)
         ELSE SelectIds(Tail(s), keep)

\* destinationIds.sort(): the ids in ascending order
RECURSIVE InsertId(_, _)
InsertId(s, x) ==
    IF s = <<>> THEN <<x>>
    ELSE IF s[Len(s)] <= x
         THEN Append(s, x)
         ELSE Append(InsertId(SubSeq(s, 1, Len(s) - 1), x), s[Len(s)])

RECURSIVE SortIds(_)
SortIds(s) ==
    IF s = <<>> THEN <<>> ELSE InsertId(SortIds(SubSeq(s, 1, Len(s) - 1)), s[Len(s)])

\* the ids in the order getDestinationDetails asks for them: with
\* REDIS_ENABLED the cache key is made with destinationIds.sort(), which
\* sorts the caller's array in place before the requests
RequestOrder(ids) == IF redisEnabled THEN SortIds(ids) ELSE ids

\* getDestinationDetails(destinationIds): one request per id, in order; an id
\* whose request fails is left out.  up is the set of ids the service
\* answers.  A list found in the cache is one that an earlier call got in
\* this way, for some up.
getDestinationDetails(ids, up) ==
    LET got == SelectIds(RequestOrder(ids), up \cap DestinationIds)
    IN  [k \in 1..Len(got) |-> Catalogue[got[k]]]

----------------------------------------------------------------------------
(* scoringService.js *)

PREFERENCE_WEIGHT == 6
POPULARITY_WEIGHT == 4

\* a score that is returned as it was computed
Unclamped(x) == x

\* x clamped to [0, 1]: Math.max(0, Math.min(1, score))
Clamp01(x) == IF x < 0 THEN 0 ELSE IF x > ScoreUnit THEN ScoreUnit ELSE x

\* the bands without their ends
ActivityFitsExclusive(level, duration) ==
    \/ level = "relaxed" /\ duration > 120
    \/ level = "moderate" /\ duration > 60 /\ duration < 180
    \/ level = "active" /\ duration < 120

\* the activity-level bonus applies
ActivityFits(level, duration) ==
    \/ level = "relaxed" /\ duration > 120
    \/ level = "moderate" /\ duration >= 60 /\ duration <= 180
    \/ level = "active" /\ duration < 120

\* a penalty of 0.2 for an excluded activity
excludedPenaltyHalved(destination, preferences) ==
    IF preferences.excludedActivities \cap destination.categories # {}
    THEN (2 * ScoreUnit) \div 10 ELSE 0

\* the penalty for an excluded activity: 0.4 when a category of the
\* destination is among excludedActivities
excludedPenalty(destination, preferences) ==
    IF preferences.excludedActivities \cap destination.categories # {}
    THEN (4 * ScoreUnit) \div 10 ELSE 0

\* the score of calculatePreferenceScore before it is clamped.  A
\* preference record has excludedActivities = {} when the property is absent,
\* costLevel = Undefined and activityLevel = "none" likewise.
rawPreferenceScore(destination, preferences) ==
    LET n == Cardinality(destination.categories)
        categoryOverlap == Cardinality(destination.categories \cap preferences.categories)
        costDifference == Abs(OrDefault(destination.costLevel, 3)
                              - OrDefault(preferences.costLevel, 3))
    IN    ScoreUnit \div 2
        + (IF n > 0 THEN ((((3 * ScoreUnit) \div 10) * categoryOverlap) \div n) ELSE 0)
        - excludedPenalty(destination, preferences)
        - (ScoreUnit \div 10) * costDifference
        + (IF /\ OrDefault(destination.visitDuration, 0) # 0
              /\ preferences.activityLevel # "none"
              /\ ActivityFits(preferences.activityLevel, destination.visitDuration)
           THEN ScoreUnit \div 10 ELSE 0)

\* calculatePreferenceScore(destination, userProfile)
calculatePreferenceScore(destination, preferences) ==
    Clamp01(rawPreferenceScore(destination, preferences))

\* calculateContextAdjustment(destination, context), in thousandths
calculateContextAdjustment(destination, context) ==
    LET timeFactor ==
            IF /\ context.timeOfDay # "none"
               /\ destination.bestTimeOfDay # "none"
               /\ destination.bestTimeOfDay = context.timeOfDay
            THEN 12 ELSE 10
        weatherFactor ==
            IF context.weather # "none" /\ OrDefault(destination.indoor, 0) # 0
            THEN IF context.weather = "rain" THEN 13 ELSE 10
            ELSE 10
        timeConstraintFactor ==
            IF /\ OrDefault(context.availableTime, 0) # 0
               /\ OrDefault(destination.visitDuration, 0) # 0
               /\ destination.visitDuration > context.availableTime
            THEN 7 ELSE 10
    IN  timeFactor * weatherFactor * timeConstraintFactor

\* finalScore = (preferenceScore * PREFERENCE_WEIGHT
\*               + popularityScore * POPULARITY_WEIGHT) * contextAdjustment
finalScore(destination, preferences, context) ==
    LET preferenceScore == calculatePreferenceScore(destination, preferences)
        popularityScore == (destination.popularity * ScoreUnit) \div 5
        weighted == ((preferenceScore * PREFERENCE_WEIGHT) \div 10)
                    + ((popularityScore * POPULARITY_WEIGHT) \div 10)
    IN  (weighted \div 1000) * calculateContextAdjustment(destination, context)

\* One entry of the list scoreDestinations returns.  The entry has no
\* location and no visitDuration property.
Scored(destination, preferences, context) ==
    [destinationId |-> destination.id,
     score |-> finalScore(destination, preferences, context),
     location |-> NoLocation,
     visitDuration |-> Undefined]

----------------------------------------------------------------------------
(* profileService.js *)

\* the user ids the auth middleware puts in req.user.userId
Users == {"u1"}

\* A user id as the tables hold it: the id of the token (v5 = FALSE), or
\* uuidv5(userId.toString(), NAMESPACE), the controller's convertedUserId
RawUserId(u) == [id |-> u, v5 |-> FALSE]
convertedUserId(u) == [id |-> u, v5 |-> TRUE]

UserIds == {RawUserId(u) : u \in Users} \cup {convertedUserId(u) : u \in Users}

\* The documents of the user in the profile service: the Profile
\* (budgetLevel, activityLevel) and the Preference (categories: a rating by
\* category, excludedActivities).  This is the state with neither.
NoProfile ==
    [hasProfile |-> FALSE, hasPreferences |-> FALSE, categories |-> [c \in {} |-> 0],
     excludedActivities |-> {}, budgetLevel |-> "none", activityLevel |-> "none"]

\* mapBudgetLevelToCostLevel(budgetLevel)
mapBudgetLevelToCostLevel(budgetLevel) ==
    CASE budgetLevel = "budget" -> 1
      [] budgetLevel = "economy" -> 2
      [] budgetLevel = "moderate" -> 3
      [] budgetLevel = "luxury" -> 4
      [] budgetLevel = "ultra-luxury" -> 5
      [] OTHER -> 3

\* mapActivityLevel(activityLevel)
mapActivityLevel(activityLevel) ==
    CASE activityLevel = "low" -> "relaxed"
      [] activityLevel = "medium" -> "moderate"
      [] activityLevel = "high" -> "active"
      [] OTHER -> "moderate"

\* the fallback profile of getUserProfile in development
FallbackPreferences ==
    [categories |-> {"museums", "outdoorActivities", "historicalSites"},
     costLevel |-> 3, activityLevel |-> "moderate", excludedActivities |-> {}]

\* getUserProfile(userId, authToken).  doc is the user's document in the
\* profile service and answers says whether both requests are answered.
\* ok = FALSE: the function throws.
getUserProfile(doc, answers, env) ==
    IF answers /\ doc.hasProfile /\ doc.hasPreferences
    THEN [ok |-> TRUE, source |-> "profile",
          preferences |->
            [categories |-> {c \in DOMAIN doc.categories : doc.categories[c] > 2},
             costLevel |-> mapBudgetLevelToCostLevel(doc.budgetLevel),
             activityLevel |-> mapActivityLevel(doc.activityLevel),
             excludedActivities |-> doc.excludedActivities]]
    ELSE IF env = "development"
         THEN [ok |-> TRUE, source |-> "fallback", preferences |-> FallbackPreferences]
         ELSE [ok |-> FALSE, source |-> "error", preferences |-> FallbackPreferences]

----------------------------------------------------------------------------
(* scoringService.scoreDestinations *)

\* no row of the user in user_preferences
\* the default of the column timeOfDay, in hundredths
DefaultTimeOfDay == [morning |-> 33, evening |-> 33]

NoRecord ==
    [present |-> FALSE, categories |-> {}, costLevel |-> 3,
     activityLevel |-> "moderate", timeOfDay |-> DefaultTimeOfDay,
     source |-> "none"]

\* a row is used whenever there is one
UsesLearnedWhenPresent(row) == row.present

\* learnedPreferences && learnedPreferences.categories.length > 0
UsesLearned(row) == row.present /\ row.categories # {}

\* the profile scoreDestinations scores with: the row of user_preferences
\* when it has categories, else the profile of the profile service
resolveProfile(row, doc, answers, env) ==
    IF UsesLearned(row)
    THEN [ok |-> TRUE, source |-> "learned",
          preferences |->
            [categories |-> row.categories, costLevel |-> row.costLevel,
             activityLevel |-> row.activityLevel, excludedActivities |-> {}]]
    ELSE getUserProfile(doc, answers, env)

\* scoreDestinations(userId, destinationIds, context, authToken).
\* error = TRUE: the function throws.
scoreDestinations(row, doc, answers, env, ids, up, context) ==
    LET prof == resolveProfile(row, doc, answers, env)
        destinations == getDestinationDetails(ids, up)
    IN  [error |-> ~prof.ok,
         source |-> prof.source,
         preferences |-> prof.preferences,
         list |-> IF prof.ok
                  THEN SortByScore([k \in 1..Len(destinations) |->
                                      Scored(destinations[k], prof.preferences, context)])
                  ELSE <<>>]

----------------------------------------------------------------------------
(* destinationService.findNearbyDestinations *)

\* s with the id d put in by ascending distance from loc, after every id that
\* is not farther (the sort is stable)
RECURSIVE InsertByDistance(_, _, _)
InsertByDistance(s, d, loc) ==
    IF s = <<>> THEN <<d>>
    ELSE IF calculateDistance(loc, Catalogue[s[Len(s)]].location)
              <= calculateDistance(loc, Catalogue[d].location)
         THEN Append(s, d)
         ELSE Append(InsertByDistance(SubSeq(s, 1, Len(s) - 1), d, loc), s[Len(s)])

RECURSIVE SortByDistance(_, _)
SortByDistance(s, loc) ==
    IF s = <<>> THEN <<>>
    ELSE InsertByDistance(SortByDistance(SubSeq(s, 1, Len(s) - 1), loc), s[Len(s)], loc)

\* the ids of the catalogue in the order the service lists them
RECURSIVE IdsUpTo(_)
IdsUpTo(n) == IF n = 0 THEN <<>> ELSE Append(IdsUpTo(n - 1), n)

\* findNearbyDestinations(lat, lng, radius, categories): the ids within
\* radiusMetres of loc, nearest first.  filter = {} stands for no categories.
findNearbyDestinations(loc, radiusMetres, filter) ==
    SortByDistance(
        SelectIds(IdsUpTo(Cardinality(DestinationIds)),
                  {d \in DestinationIds :
                      /\ calculateDistance(loc, Catalogue[d].location) <= radiusMetres
                      /\ (filter = {} \/ Catalogue[d].categories \cap filter # {})}),
        loc)

----------------------------------------------------------------------------
(* recommendationController.js *)

\* determineTimeOfDay(timeString)
determineTimeOfDay(t) ==
    IF t = NoTime THEN "afternoon"
    ELSE IF t[1] < 12 THEN "morning"
    ELSE IF t[1] < 17 THEN "afternoon"
    ELSE "evening"

\* calculateAvailableTime(startTime, endTime)
calculateAvailableTime(startTime, endTime) ==
    IF startTime = NoTime \/ endTime = NoTime THEN 480
    ELSE (endTime[1] * 60 + endTime[2]) - (startTime[1] * 60 + startTime[2])

\* storeUserToken(userId, authHeader): the table after the call.  storable:
\* the header holds a token that is valid for an hour or more.
storeUserToken(tokens, u, storable) ==
    IF storable THEN tokens \cup {RawUserId(u)} ELSE tokens

\* the indexes of the stops among items[i..]
RECURSIVE StopIndexes(_, _)
StopIndexes(items, i) ==
    IF i > Len(items) THEN <<>>
    ELSE IF items[i].type = "break"
         THEN StopIndexes(items, i + 1)
         ELSE <<i>> \o StopIndexes(items, i + 1)

\* the rows Recommendation.create adds for an itinerary, one per stop, with
\* position = itinerary.indexOf(item)
NewRows(key, itineraryId, items, context) ==
    LET at == StopIndexes(items, 1)
    IN  [k \in 1..Len(at) |->
            [userId |-> key,
             itineraryId |-> itineraryId,
             destinationId |-> items[at[k]].destinationId,
             score |-> items[at[k]].score,
             position |-> at[k] - 1,
             contextData |-> context,
             status |-> "pending",
             feedbackRating |-> Undefined]]

\* a response of the service and what the handler did for it
NoCall ==
    [op |-> "none", userId |-> RawUserId("u1"), status |-> 0, message |-> "",
     itineraryId |-> 0, items |-> <<>>, source |-> "none",
     preferences |-> FallbackPreferences, ranked |-> <<>>, asked |-> <<>>,
     removed |-> {}, constrained |-> FALSE, mode |-> "none", built |-> FALSE,
     sums |-> <<>>]

\* the destination ids of a scored list, in order
IdsOf(list) == [k \in 1..Len(list) |-> list[k].destinationId]

\* the answer of generateRecommendations to one request: the response, the
\* rows it stores and the itinerary
generateOutcome(key, location, startTime, endTime, mode, filter, answers, up) ==
    LET call == [NoCall EXCEPT !.op = "generate", !.userId = key]
        nearby == findNearbyDestinations(location, 5000, filter)
        context == [timeOfDay |-> determineTimeOfDay(startTime),
                    weather |-> "sunny",
                    availableTime |-> calculateAvailableTime(startTime, endTime)]
        scoring == scoreDestinations(userPreferences[key], profileStore,
                                     answers, nodeEnv, nearby, up, context)
        itinerary == createOptimizedItinerary(scoring.list,
                        [startTime |-> startTime, endTime |-> endTime,
                         startLocation |-> location, transportMode |-> mode])
    IN  IF location = 0 \/ location = NoLocation
        THEN [call |-> [call EXCEPT !.status = 400,
                           !.message = "Location is required with latitude and longitude"],
              rows |-> <<>>, stored |-> FALSE]
        ELSE IF up = {}
        THEN [call |-> [call EXCEPT !.status = 500,
                           !.message = "Invalid response from destination service"],
              rows |-> <<>>, stored |-> FALSE]
        ELSE IF nearby = <<>>
        THEN [call |-> [call EXCEPT !.status = 404,
                           !.message = "No destinations found in this location"],
              rows |-> <<>>, stored |-> FALSE]
        ELSE IF scoring.error
        THEN [call |-> [call EXCEPT !.status = 500, !.source = scoring.source,
                           !.asked = nearby,
                           !.message = "Invalid response from profile service"],
              rows |-> <<>>, stored |-> FALSE]
        ELSE [call |-> [call EXCEPT !.status = 200, !.source = scoring.source,
                           !.preferences = scoring.preferences,
                           !.asked = nearby,
                           !.ranked = IdsOf(scoring.list),
                           !.itineraryId = nextItineraryId,
                           !.items = itinerary, !.built = TRUE],
              rows |-> NewRows(key, nextItineraryId, itinerary, context),
              stored |-> TRUE]

\* the indexes of the rows of an itinerary of a user
ItineraryRowIndexes(rows, key, itineraryId) ==
    {i \in 1..Len(rows) : rows[i].userId = key /\ rows[i].itineraryId = itineraryId}

\* the orders in which findAll(order: position ASC) can return these rows:
\* rows of equal position come in any order
OrdersByPosition(rows, idx) ==
    {o \in [1..Cardinality(idx) -> idx] :
        /\ \A a, b \in DOMAIN o : a # b => o[a] # o[b]
        /\ \A a, b \in DOMAIN o : a < b => rows[o[a]].position <= rows[o[b]].position}

\* the index of the first row that has this destination, 0 when none has
RECURSIVE FindRow(_, _, _)
FindRow(rows, destinationId, i) ==
    IF i > Len(rows) THEN 0
    ELSE IF rows[i].destinationId = destinationId THEN i
    ELSE FindRow(rows, destinationId, i + 1)

\* the candidate refineItinerary makes of a destination and the rows found
RefineCandidate(dest, found) ==
    [destinationId |-> dest.id,
     score |-> IF FindRow(found, dest.id, 1) = 0
               THEN ScoreUnit \div 2
               ELSE OrDefault(found[FindRow(found, dest.id, 1)].score, ScoreUnit \div 2),
     location |-> dest.location,
     visitDuration |-> dest.visitDuration]

\* Recommendation.update({position}, {where: {itineraryId, destinationId}}):
\* every such row gets the position; a row written is the newest of the table
RECURSIVE UpdatePosition(_, _, _, _, _)
UpdatePosition(rows, itineraryId, destinationId, position, i) ==
    IF i > Len(rows) THEN <<>>
    ELSE LET rest == UpdatePosition(rows, itineraryId, destinationId, position, i + 1)
         IN  IF rows[i].itineraryId = itineraryId /\ rows[i].destinationId = destinationId
             THEN rest \o <<[rows[i] EXCEPT !.position = position]>>
             ELSE <<rows[i]>> \o rest

\* the loop of refineItinerary that updates the positions, from item i on
RECURSIVE UpdatePositions(_, _, _, _)
UpdatePositions(rows, itineraryId, items, i) ==
    IF i > Len(items) THEN rows
    ELSE IF items[i].type = "break"
         THEN UpdatePositions(rows, itineraryId, items, i + 1)
         ELSE UpdatePositions(
                  UpdatePosition(rows, itineraryId, items[i].destinationId, i - 1, 1),
                  itineraryId, items, i + 1)

\* no check of the ids that are left
AllRemovedUnchecked(destinationIds) == FALSE

\* destinationIds.length === 0
AllRemoved(destinationIds) == destinationIds = <<>>

\* the answer of refineItinerary to one request; found is the rows that
\* findAll returned, constraints the addedConstraints of the body
refineOutcome(key, itineraryId, found, removed, constraints, mode, up) ==
    LET call == [NoCall EXCEPT !.op = "refine", !.userId = key,
                    !.itineraryId = itineraryId, !.removed = removed,
                    !.mode = mode,
                    !.constrained = (constraints # [startTime |-> NoTime,
                                                    endTime |-> NoTime,
                                                    startLocation |-> NoLocation])]
        destinationIds == SelectIds(IdsOf(found), DestinationIds \ removed)
        destinations == getDestinationDetails(destinationIds, up)
        scored == [k \in 1..Len(destinations) |-> RefineCandidate(destinations[k], found)]
        newItinerary == createOptimizedItinerary(scored,
                            [startTime |-> TimeOr(constraints.startTime, DefaultStart),
                             endTime |-> TimeOr(constraints.endTime, DefaultEnd),
                             startLocation |-> constraints.startLocation,
                             transportMode |-> IF mode = "none" THEN "walking" ELSE mode])
    IN  IF found = <<>>
        THEN [call |-> [call EXCEPT !.status = 404, !.message = "Itinerary not found"],
              rows |-> recommendations]
        ELSE IF AllRemoved(destinationIds)
        THEN [call |-> [call EXCEPT !.status = 400,
                           !.message = "Cannot refine itinerary with all destinations removed"],
              rows |-> recommendations]
        ELSE [call |-> [call EXCEPT !.status = 200, !.asked = destinationIds,
                           !.ranked = IdsOf(SortByScore(scored)),
                           !.items = newItinerary, !.built = TRUE],
              rows |-> UpdatePositions(recommendations, itineraryId, newItinerary, 1)]

\* saveFeedback on the row at index i: recommendation.update({feedback,
\* status}); rating = Undefined and status = "none" stand for a body without
\* the property.  The row written is the newest of the table.
saveFeedbackRows(rows, i, rating, status) ==
    Splice(rows, i) \o
    <<[rows[i] EXCEPT
         !.feedbackRating = IF rating # Undefined THEN rating ELSE @,
         !.status = IF status # "none" THEN status ELSE @]>>

----------------------------------------------------------------------------
(* The preference learner: updateUserFeaturesTask *)

\* category sums are kept in sixths, cost levels in millionths
SumUnit == 6
CostUnit == 1000000

\* the rows findAll returns: the user's rows with feedback, newest first
RECURSIVE FeedbackHistory(_, _, _)
FeedbackHistory(rows, key, i) ==
    IF i = 0 THEN <<>>
    ELSE IF /\ rows[i].userId = key
            /\ rows[i].status \in {"accepted", "rejected", "completed"}
         THEN <<rows[i]>> \o FeedbackHistory(rows, key, i - 1)
         ELSE FeedbackHistory(rows, key, i - 1)

\* the multiplier of a feedback item.  The learner reads feedback.rating of
\* the row, a property the row does not have: the rating that saveFeedback
\* stores is row.feedback.rating.
rowRating(row) == Undefined

multiplier(row) ==
    IF row.status = "rejected" THEN -SumUnit
    ELSE IF row.status = "completed"
         THEN IF OrDefault(rowRating(row), 0) # 0
              THEN (rowRating(row) * SumUnit) \div 3
              ELSE SumUnit
         ELSE SumUnit \div 2

\* calculateWeightedAverage(currentValue, newValue, 0.3), in CostUnit
calculateWeightedAverage(currentValue, newValue) ==
    ((currentValue * 7) + (newValue * 3)) \div 10

\* the activity level a visit duration stands for
durationActivityLevel(visitDuration) ==
    IF visitDuration > 180 THEN "relaxed"
    ELSE IF visitDuration >= 60 /\ visitDuration <= 180 THEN "moderate"
    ELSE "active"

\* The state of the forEach of calculatePreferenceAdjustments after one
\* more feedback item: the sums by category, the cost level, the activity level
learnStep(acc, row, fetched) ==
    IF row.destinationId \notin fetched THEN acc
    ELSE LET destination == Catalogue[row.destinationId]
             completed == row.status = "completed"
         IN  [sums |-> [c \in DOMAIN acc.sums \cup destination.categories |->
                          (IF c \in DOMAIN acc.sums THEN acc.sums[c] ELSE 0)
                          + (IF c \in destination.categories THEN multiplier(row) ELSE 0)],
              costLevel |->
                  IF completed /\ OrDefault(destination.costLevel, 0) # 0
                  THEN calculateWeightedAverage(acc.costLevel,
                                                destination.costLevel * CostUnit)
                  ELSE acc.costLevel,
              activityLevel |->
                  IF completed /\ OrDefault(destination.visitDuration, 0) # 0
                  THEN durationActivityLevel(destination.visitDuration)
                  ELSE acc.activityLevel]

RECURSIVE learnFrom(_, _, _, _)
learnFrom(acc, history, fetched, i) ==
    IF i > Len(history) THEN acc
    ELSE learnFrom(learnStep(acc, history[i], fetched), history, fetched, i + 1)

\* Math.round(x) of a cost level in CostUnit
RoundCost(x) == (x + (CostUnit \div 2)) \div CostUnit

\* the adjustments with the categories of positive sum alone
calculatePreferenceAdjustmentsNoFallback(history, fetched, preferences) ==
    LET acc == learnFrom([sums |-> [c \in {} |-> 0],
                          costLevel |-> OrDefault(preferences.costLevel, 3) * CostUnit,
                          activityLevel |-> preferences.activityLevel],
                         history, fetched, 1)
    IN  [categories |-> {c \in DOMAIN acc.sums : acc.sums[c] > 0},
         costLevel |-> RoundCost(acc.costLevel),
         activityLevel |-> IF acc.activityLevel = "none"
                           THEN "moderate" ELSE acc.activityLevel,
         sums |-> acc.sums]

\* calculatePreferenceAdjustments(feedbackHistory, destinationMap,
\* currentPreferences); fetched is the ids of the destination map
calculatePreferenceAdjustments(history, fetched, preferences) ==
    LET acc == learnFrom([sums |-> [c \in {} |-> 0],
                          costLevel |-> OrDefault(preferences.costLevel, 3) * CostUnit,
                          activityLevel |-> preferences.activityLevel],
                         history, fetched, 1)
        updatedCategories == {c \in DOMAIN acc.sums : acc.sums[c] > 0}
    IN  [categories |-> IF updatedCategories # {}
                        THEN updatedCategories ELSE preferences.categories,
         costLevel |-> RoundCost(acc.costLevel),
         activityLevel |-> IF acc.activityLevel = "none"
                           THEN "moderate" ELSE acc.activityLevel,
         sums |-> acc.sums]

\* mapCostLevelToBudgetLevel(costLevel)
mapCostLevelToBudgetLevel(costLevel) ==
    CASE costLevel = 1 -> "budget"
      [] costLevel = 2 -> "economy"
      [] costLevel = 3 -> "moderate"
      [] costLevel = 4 -> "luxury"
      [] costLevel = 5 -> "ultra-luxury"
      [] OTHER -> "moderate"

\* updateUserPreferencesInProfileService: PUT /api/preferences.  The
\* profile service writes categories, and excludedActivities as the body
\* gives it: undefined, which the store keeps as it was or clears
\* (keepsUndefined).  budgetLevel and activityLevel are not fields of the
\* Preference document and are dropped.  accepted = FALSE: the request fails
\* and the learner goes on.
updateUserPreferencesInProfileService(doc, adjustments, accepted, keepsUndefined) ==
    IF ~accepted THEN doc
    ELSE [doc EXCEPT
            !.hasPreferences = TRUE,
            !.categories = [c \in adjustments.categories |-> 4],
            !.excludedActivities = IF keepsUndefined THEN @ ELSE {}]

\* the task without its test of an empty feedback history
learnOutcomeHistoryUnchecked(key, tokenLive, answers, up, accepted, keepsUndefined) ==
    LET history == FeedbackHistory(recommendations, key, Len(recommendations))
        prof == getUserProfile(profileStore, answers, nodeEnv)
        adjustments == calculatePreferenceAdjustments(history, {}, prof.preferences)
        same == [result |-> "error", row |-> userPreferences[key],
                 doc |-> profileStore, adjustments |-> <<>>,
                 preferences |-> FallbackPreferences]
    IN  IF ~(key \in userTokens /\ tokenLive)
        THEN [same EXCEPT !.result = "no_valid_token"]
        ELSE IF ~prof.ok
        THEN same
        ELSE [result |-> "updated",
              row |-> [present |-> TRUE,
                       categories |-> adjustments.categories,
                       costLevel |-> adjustments.costLevel,
                       activityLevel |-> adjustments.activityLevel,
                       timeOfDay |-> userPreferences[key].timeOfDay,
                       source |-> "derived"],
              doc |-> updateUserPreferencesInProfileService(
                          profileStore, adjustments, accepted, keepsUndefined),
              adjustments |-> <<adjustments>>,
              preferences |-> prof.preferences]

\* The answer of updateUserFeaturesTask({userId}): its result, and the two
\* stores after it.  result: "no_valid_token", "no_feedback" (updated =
\* false), "updated", or "error" (the task throws).
learnOutcome(key, tokenLive, answers, up, accepted, keepsUndefined) ==
    LET history == FeedbackHistory(recommendations, key, Len(recommendations))
        fetched == {d \in up \cap DestinationIds :
                       \E k \in 1..Len(history) : history[k].destinationId = d}
        prof == getUserProfile(profileStore, answers, nodeEnv)
        adjustments == calculatePreferenceAdjustments(history, fetched, prof.preferences)
        same == [result |-> "error", row |-> userPreferences[key],
                 doc |-> profileStore, adjustments |-> <<>>,
                 preferences |-> FallbackPreferences]
    IN  IF ~(key \in userTokens /\ tokenLive)
        THEN [same EXCEPT !.result = "no_valid_token"]
        ELSE IF history = <<>>
        THEN [same EXCEPT !.result = "no_feedback"]
        ELSE IF ~prof.ok
        THEN same
        ELSE [result |-> "updated",
              row |-> [present |-> TRUE,
                       categories |-> adjustments.categories,
                       costLevel |-> adjustments.costLevel,
                       activityLevel |-> adjustments.activityLevel,
                       timeOfDay |-> userPreferences[key].timeOfDay,
                       source |-> "derived"],
              doc |-> updateUserPreferencesInProfileService(
                          profileStore, adjustments, accepted, keepsUndefined),
              adjustments |-> <<adjustments>>,
              preferences |-> prof.preferences]

----------------------------------------------------------------------------
(* ContentFilter *)

\* the content score 1.0
ContentUnit == 72000

\* the answer of GET /api/users/:id/preferences when the request fails
NoResponse ==
    [ok |-> FALSE, categories |-> {}, budgetLevel |-> Undefined,
     pacePreference |-> "none", earlyRiser |-> FALSE, nightOwl |-> FALSE]

\* mapProfilePreferencesToLocal(profilePreferences), as the row that
\* UserPreference.create stores with source 'explicit'
mapProfilePreferencesToLocal(p) ==
    [present |-> TRUE,
     categories |-> p.categories,
     costLevel |-> OrDefault(p.budgetLevel, 3),
     activityLevel |-> IF p.pacePreference = "none" THEN "moderate"
                       ELSE p.pacePreference,
     timeOfDay |-> [morning |-> IF p.earlyRiser THEN 60 ELSE 20,
                    evening |-> IF p.nightOwl THEN 60 ELSE 20],
     source |-> "explicit"]

\* ContentFilter.getUserPreferences(userId): the row of user_preferences
\* when there is one; else the answer of the profile service, stored as a
\* new row; else null (found = FALSE).  An entry of the cache under
\* user_preferences:<id> is written only after the row was created, so
\* without a row the cache has none.
getUserPreferences(row, response) ==
    IF row.present
    THEN [found |-> TRUE, preferences |-> row, row |-> row]
    ELSE IF response.ok
         THEN [found |-> TRUE,
               preferences |-> mapProfilePreferencesToLocal(response),
               row |-> mapProfilePreferencesToLocal(response)]
         ELSE [found |-> FALSE, preferences |-> row, row |-> row]

\* calculateCategoryScore: categoryWeights is {} in every row, so the
\* score is the simple percentage match
calculateCategoryScore(destination, prefs) ==
    LET matchCount == Cardinality(destination.categories \cap prefs.categories)
    IN  IF destination.categories = {} \/ prefs.categories = {}
        THEN ContentUnit \div 2
        ELSE IF matchCount > 0
             THEN (ContentUnit \div 2)
                  + ((ContentUnit * matchCount)
                     \div (2 * Cardinality(destination.categories)))
             ELSE ContentUnit \div 2

calculateCostScore(destination, prefs) ==
    LET difference == Abs(OrDefault(destination.costLevel, 3)
                          - OrDefault(prefs.costLevel, 3))
        score == ContentUnit - (difference * (ContentUnit \div 5))
    IN  IF score < 0 THEN 0 ELSE score

\* activityRanges
activityRange(level) ==
    CASE level = "active" -> [min |-> 0, max |-> 90, ideal |-> 60]
      [] level = "relaxed" -> [min |-> 120, max |-> 300, ideal |-> 180]
      [] OTHER -> [min |-> 60, max |-> 180, ideal |-> 120]

calculateActivityScore(destination, prefs) ==
    LET visitDuration == OrDefault(destination.visitDuration, 60)
        range == activityRange(prefs.activityLevel)
        toMin == Abs(visitDuration - range.min)
        toMax == Abs(visitDuration - range.max)
        distanceOutside == IF toMin < toMax THEN toMin ELSE toMax
        outside == (ContentUnit \div 2)
                   - ((distanceOutside * ContentUnit) \div 240)
        rangeSize == (range.max - range.min) \div 2
    IN  IF visitDuration = range.ideal THEN ContentUnit
        ELSE IF visitDuration < range.min \/ visitDuration > range.max
             THEN IF outside < 0 THEN 0 ELSE outside
             ELSE ContentUnit
                  - ((Abs(visitDuration - range.ideal) * ContentUnit)
                     \div (2 * rangeSize))

\* calculateAttributesScore: every destination has attributes; indoor is
\* the one attribute that the default weatherPreferences names, and no
\* destination has the attribute outdoor
calculateAttributesScore(destination, prefs) ==
    LET weather == IF destination.indoor = 1 THEN ContentUnit \div 10 ELSE 0
        evening == IF prefs.timeOfDay.evening > 40 /\ destination.indoor = 1
                   THEN ContentUnit \div 20 ELSE 0
        score == (ContentUnit \div 2) + weather + evening
    IN  IF score > ContentUnit THEN ContentUnit ELSE score

\* calculateWeightedScore, with its weights 0.4, 0.3, 0.2 and 0.1
calculateWeightedScore(scores) ==
    ((scores.categoryScore * 4) + (scores.costScore * 3)
     + (scores.activityScore * 2) + scores.attributesScore) \div 10

\* one entry of the list ContentFilter.scoreDestinations returns
ContentEntry(destination, contentScore) ==
    [destinationId |-> destination.id, score |-> contentScore,
     location |-> NoLocation, visitDuration |-> Undefined]

scoreWithPreferences(destinations, prefs) ==
    [k \in 1..Len(destinations) |->
        ContentEntry(destinations[k],
            calculateWeightedScore(
                [categoryScore |-> calculateCategoryScore(destinations[k], prefs),
                 costScore |-> calculateCostScore(destinations[k], prefs),
                 activityScore |-> calculateActivityScore(destinations[k], prefs),
                 attributesScore |-> calculateAttributesScore(destinations[k], prefs)]))]

scoreWithDefaultPreferences(destinations) ==
    [k \in 1..Len(destinations) |->
        ContentEntry(destinations[k],
            ((OrDefault(destinations[k].popularity, 0) * ContentUnit * 7) \div 50)
            + ((calculateWeightedScore(
                    [categoryScore |-> ContentUnit \div 2,
                     costScore |-> calculateCostScore(destinations[k], NoRecord),
                     activityScore |-> calculateActivityScore(destinations[k], NoRecord),
                     attributesScore |-> ContentUnit \div 2]) * 3) \div 10))]

\* ContentFilter.scoreDestinations(userId, destinations): the list it
\* returns and the row of the user after it
contentScoreDestinations(row, response, destinations) ==
    LET got == getUserPreferences(row, response)
    IN  [row |-> got.row,
         source |-> IF got.found THEN "preferences" ELSE "defaults",
         list |-> IF got.found
                  THEN scoreWithPreferences(destinations, got.preferences)
                  ELSE scoreWithDefaultPreferences(destinations)]

----------------------------------------------------------------------------
(* contextFilter.js *)

\* one unit of a score multiplier is 1/AdjUnit
AdjUnit == ScoreUnit \div 6

\* m * f for a factor f of a table, f in tenths
Times(m, f) == (m * f) \div 10

\* the keys of the factor tables that the destinations of the model have as
\* an attribute or as their type
FactorKeys ==
    {"indoor", "museum", "outdoor", "park", "bar", "market",
     "popularOnWeekends", "lessCrowdedWeekdays"}

\* weatherFactors[weather.toLowerCase()] || {}, in tenths; 0: no entry
weatherFactors(weather) ==
    [k \in FactorKeys |->
        CASE weather = "sunny" ->
                (CASE k = "outdoor" -> 13 [] k = "park" -> 14
                   [] k = "indoor" -> 8 [] k = "museum" -> 9 [] OTHER -> 0)
          [] weather = "rainy" ->
                (CASE k = "indoor" -> 14 [] k = "museum" -> 13
                   [] k = "outdoor" -> 7 [] OTHER -> 0)
          [] weather = "cold" ->
                (CASE k = "indoor" -> 13 [] k = "museum" -> 12
                   [] k = "outdoor" -> 8 [] OTHER -> 0)
          [] weather = "hot" ->
                (CASE k = "park" -> 12 [] k = "indoor" -> 11
                   [] k = "museum" -> 9 [] OTHER -> 0)
          [] weather = "cloudy" ->
                (CASE k = "outdoor" -> 10 [] k = "indoor" -> 10
                   [] k = "museum" -> 11 [] OTHER -> 0)
          [] weather = "snow" ->
                (CASE k = "indoor" -> 13 [] k = "outdoor" -> 7 [] OTHER -> 0)
          [] OTHER -> 0]

\* timeFactors[timeOfDay.toLowerCase()] || {}, in tenths; 0: no entry
timeFactors(timeOfDay) ==
    [k \in FactorKeys |->
        CASE timeOfDay = "morning" ->
                (CASE k = "park" -> 12 [] k = "museum" -> 9
                   [] k = "bar" -> 6 [] OTHER -> 0)
          [] timeOfDay = "afternoon" ->
                (CASE k = "museum" -> 12 [] k = "park" -> 12
                   [] k = "bar" -> 8 [] OTHER -> 0)
          [] timeOfDay = "evening" ->
                (CASE k = "bar" -> 15 [] k = "museum" -> 7 [] OTHER -> 0)
          [] OTHER -> 0]

isWeekend(dayOfWeek) == dayOfWeek = 0 \/ dayOfWeek = 6

\* isWeekend ? weekendFactors : weekdayFactors, in tenths; 0: no entry
dayFactors(dayOfWeek) ==
    [k \in FactorKeys |->
        IF isWeekend(dayOfWeek)
        THEN (CASE k = "park" -> 13 [] k = "museum" -> 12
                [] k = "market" -> 14 [] OTHER -> 0)
        ELSE (CASE k = "museum" -> 11 [] OTHER -> 0)]

\* seasonFactors[season.toLowerCase()] || {}, in tenths; 0: no entry
seasonFactors(season) ==
    [k \in FactorKeys |->
        CASE season = "spring" ->
                (CASE k = "park" -> 14 [] k = "outdoor" -> 13 [] OTHER -> 0)
          [] season = "summer" ->
                (CASE k = "outdoor" -> 13 [] k = "park" -> 12 [] OTHER -> 0)
          [] season = "fall" ->
                (CASE k = "park" -> 13 [] k = "outdoor" -> 11 [] OTHER -> 0)
          [] season = "winter" ->
                (CASE k = "indoor" -> 12 [] k = "museum" -> 12 [] OTHER -> 0)
          [] OTHER -> 0]

\* Object.entries(destination.attributes).forEach: scoreAdjustment *=
\* factors[attr] for every attribute that is true and has a factor
RECURSIVE attributesProduct(_, _, _)
attributesProduct(factors, attributes, m) ==
    IF attributes = {} THEN m
    ELSE LET attr == CHOOSE a \in attributes : TRUE
         IN  attributesProduct(factors, attributes \ {attr},
                               IF factors[attr] # 0 THEN Times(m, factors[attr]) ELSE m)

\* scoreAdjustment *= factors[destination.type.toLowerCase()]
typeProduct(factors, type, m) ==
    IF type # "none" /\ factors[type] # 0 THEN Times(m, factors[type]) ELSE m

\* Math.abs(scoreAdjustment - 1.0) > 0.1 on doubles.  1.1 - 1.0 is
\* 0.10000000000000009 and is above 0.1; 1.0 - 0.9 is 0.09999999999999998
\* and is not.
Significant(m) ==
    \/ Abs(m - AdjUnit) > AdjUnit \div 10
    \/ m = 11 * (AdjUnit \div 10)

\* Math.abs(scoreAdjustment - 1.0) > 0.3 on doubles.  1.3 - 1.0 and
\* 1.0 - 0.7 are 0.30000000000000004 and are above 0.3.
Strong(m) ==
    \/ Abs(m - AdjUnit) > 3 * (AdjUnit \div 10)
    \/ m = 13 * (AdjUnit \div 10)
    \/ m = 7 * (AdjUnit \div 10)

\* scoreAdjustment > 1.0 ? 'positive' : 'negative'
impactOf(m) == IF m > AdjUnit THEN "positive" ELSE "negative"

\* An entry of reasoning.contextFactors.  magnitude and event are "none"
\* in an entry that has no such property.
ContextFactor(type, impact, magnitude, event) ==
    [type |-> type, impact |-> impact, magnitude |-> magnitude, event |-> event]

\* What a method makes of one destination: the factor its score is
\* multiplied by, and the entries pushed to reasoning.contextFactors
Adjusted(m, entries) == [scoreAdjustment |-> m, contextFactors |-> entries]

\* the entry of a method other than applyWeatherAdjustments and
\* applySpecialEventsAdjustments, when the adjustment is significant
PlainEntry(type, m) ==
    IF Significant(m)
    THEN <<ContextFactor(type, impactOf(m), "none", "none")>>
    ELSE <<>>

\* applyWeatherAdjustments(destinations, weather), for one destination
applyWeatherAdjustments(destination, weather) ==
    LET m == attributesProduct(weatherFactors(weather), destination.attributes, AdjUnit)
    IN  Adjusted(m,
            IF Significant(m)
            THEN <<ContextFactor("weather", impactOf(m),
                                 IF Strong(m) THEN "strong" ELSE "moderate", "none")>>
            ELSE <<>>)

\* applyTimeOfDayAdjustments(destinations, timeOfDay), for one destination
applyTimeOfDayAdjustments(destination, timeOfDay) ==
    LET byAttributes == attributesProduct(timeFactors(timeOfDay),
                                          destination.attributes, AdjUnit)
        byType == typeProduct(timeFactors(timeOfDay), destination.type, byAttributes)
        m == IF /\ destination.bestTimeOfDay # "none"
                /\ destination.bestTimeOfDay = timeOfDay
             THEN Times(byType, 13) ELSE byType
    IN  Adjusted(m, PlainEntry("timeOfDay", m))

\* applyDayOfWeekAdjustments(destinations, dayOfWeek), for one destination
applyDayOfWeekAdjustments(destination, dayOfWeek) ==
    LET byType == typeProduct(dayFactors(dayOfWeek), destination.type, AdjUnit)
        byAttributes == attributesProduct(dayFactors(dayOfWeek),
                                          destination.attributes, byType)
        popular == IF /\ isWeekend(dayOfWeek)
                      /\ "popularOnWeekends" \in destination.attributes
                   THEN Times(byAttributes, 13) ELSE byAttributes
        m == IF /\ ~isWeekend(dayOfWeek)
                /\ "lessCrowdedWeekdays" \in destination.attributes
             THEN Times(popular, 12) ELSE popular
    IN  Adjusted(m, PlainEntry("dayOfWeek", m))

\* destination.seasonality[season] of a destination that has none
NoSeasonInfo == [present |-> FALSE, rating |-> Undefined,
                 isPeak |-> FALSE, isOff |-> FALSE]

\* applySeasonAdjustments(destinations, season), for one destination whose
\* seasonality[season] is destination.seasonInfo.  The factor of a rating
\* is 0.8 + (rating / 5) * 0.6, in hundredths 80 + 12 * rating.
applySeasonAdjustments(destination, season) ==
    LET info == destination.seasonInfo
        byAttributes == attributesProduct(seasonFactors(season),
                                          destination.attributes, AdjUnit)
        byRating == IF info.present /\ info.rating # Undefined
                    THEN (byAttributes * (80 + (12 * info.rating))) \div 100
                    ELSE byAttributes
        byPeak == IF info.present /\ info.isPeak THEN Times(byRating, 13) ELSE byRating
        m == IF info.present /\ info.isOff THEN Times(byPeak, 7) ELSE byPeak
    IN  Adjusted(m, PlainEntry("season", m))

\* The loop of applySpecialEventsAdjustments over events[i..], carrying
\* scoreAdjustment and the type of eventImpact ("none" for null)
RECURSIVE eventsFrom(_, _, _, _, _)
eventsFrom(events, i, destination, m, impact) ==
    IF i > Len(events) THEN [scoreAdjustment |-> m, impact |-> impact]
    ELSE IF events[i].destinationId = destination.destinationId
         THEN [scoreAdjustment |-> Times(m, 15), impact |-> "direct"]
         ELSE LET near == /\ events[i].location # NoLocation
                          /\ destination.location # NoLocation
                          /\ calculateDistance(events[i].location,
                                               destination.location) < 1000
                  themed == events[i].categories \cap destination.categories # {}
                  afterNear == IF near THEN Times(m, 12) ELSE m
              IN  eventsFrom(events, i + 1, destination,
                             IF themed THEN Times(afterNear, 11) ELSE afterNear,
                             IF themed THEN "thematic"
                             ELSE IF near THEN "nearby" ELSE impact)

\* applySpecialEventsAdjustments(destinations, events), for one destination
applySpecialEventsAdjustments(destination, events) ==
    LET r == eventsFrom(events, 1, destination, AdjUnit, "none")
    IN  Adjusted(r.scoreAdjustment,
            IF r.impact # "none"
            THEN <<ContextFactor("event", "positive", "none", r.impact)>>
            ELSE <<>>)

\* the penalty of a visit longer than the available time, in tenths
\* with the tiers closed below instead of above
excessPenaltyOpenTiers(visitDuration, availableTime) ==
    IF visitDuration - availableTime < 30 THEN 8
    ELSE IF visitDuration - availableTime < 60 THEN 6
    ELSE 3

\* the penalty of a visit longer than the available time, in tenths
excessPenalty(visitDuration, availableTime) ==
    IF visitDuration - availableTime <= 30 THEN 8
    ELSE IF visitDuration - availableTime <= 60 THEN 6
    ELSE 3

\* applyTimeConstraintAdjustments(destinations, availableTime), for one
\* destination.  percentOfAvailable = (visitDuration / availableTime) * 100
\* is compared with 70 and 90: for whole minutes the double is on the same
\* side of 70 and of 90 as the quotient.
applyTimeConstraintAdjustments(destination, availableTime) ==
    LET visitDuration == OrDefault(destination.visitDuration, 60)
        penalised == IF visitDuration > availableTime
                     THEN Times(AdjUnit, excessPenalty(visitDuration, availableTime))
                     ELSE AdjUnit
        m == IF /\ visitDuration * 100 >= 70 * availableTime
                /\ visitDuration * 100 <= 90 * availableTime
             THEN Times(penalised, 12) ELSE penalised
    IN  Adjusted(m, PlainEntry("timeConstraint", m))

\* no destination given to the context filter
NoContextInput ==
    [method |-> "none",
     destination |-> [destinationId |-> 0, attributes |-> {}, type |-> "none",
                      bestTimeOfDay |-> "none", seasonInfo |-> NoSeasonInfo,
                      location |-> NoLocation, categories |-> {},
                      visitDuration |-> Undefined],
     weather |-> "none", timeOfDay |-> "none", dayOfWeek |-> Undefined,
     season |-> "none", events |-> <<>>, availableTime |-> Undefined]

\* no method of the context filter has returned
NotAdjusted == Adjusted(0, <<>>)

contextVars == <<cIn, cOut>>

\* the context filter is not in use
ContextIdle == cIn = NoContextInput /\ cOut = NotAdjusted

----------------------------------------------------------------------------
(* Inputs *)

Idle == [cands |-> <<>>, startTime |-> NoTime, endTime |-> NoTime,
         startLocation |-> NoLocation, transportMode |-> "walking"]

IdleLoop == [remaining |-> <<>>, currentTime |-> 0,
             currentLocation |-> NoLocation, itinerary |-> <<>>]

NoPreferenceInput ==
    [destination |-> [categories |-> {}, costLevel |-> Undefined,
                      visitDuration |-> Undefined],
     preferences |-> [categories |-> {}, excludedActivities |-> {},
                      costLevel |-> Undefined, activityLevel |-> "none"]]

\* the time windows of the requests
Windows == {<<<<10, 30>>, <<13, 30>>>>, <<<<9, 0>>, <<10, 0>>>>, <<<<11, 0>>, <<17, 0>>>>}

\* the candidates given to the builder: a score, a location, a visit duration
CandidateShapes ==
    {[score |-> sc, location |-> x[1], visitDuration |-> x[2]] :
        sc \in {0, (9 * ScoreUnit) \div 10},
        x \in {<<NoLocation, 45>>, <<1, 90>>, <<1, 45>>, <<20, 45>>}}

CandidateLists ==
    UNION {[1..n -> CandidateShapes] : n \in 0..MaxCands}

\* the candidate list of shapes, the candidate at k having destinationId k
Numbered(shapes) ==
    [k \in 1..Len(shapes) |->
        [destinationId |-> k, score |-> shapes[k].score,
         location |-> shapes[k].location,
         visitDuration |-> shapes[k].visitDuration]]

\* the documents the profile service may hold for the user
ProfileChoices ==
    {NoProfile,
     [hasProfile |-> TRUE, hasPreferences |-> TRUE,
      categories |-> [c \in {"museums", "parks"} |-> IF c = "museums" THEN 5 ELSE 1],
      excludedActivities |-> {"nightlife"},
      budgetLevel |-> "budget", activityLevel |-> "high"],
     [hasProfile |-> TRUE, hasPreferences |-> TRUE,
      categories |-> [c \in {"parks"} |-> 2],
      excludedActivities |-> {},
      budgetLevel |-> "luxury", activityLevel |-> "none"]}

\* the destinations the destination service answers for
UpChoices == {DestinationIds, DestinationIds \ {2}, {}}

NoConstraints ==
    [startTime |-> NoTime, endTime |-> NoTime, startLocation |-> NoLocation]

ConstraintChoices ==
    {NoConstraints,
     [NoConstraints EXCEPT !.startTime = <<10, 30>>, !.endTime = <<13, 30>>],
     [NoConstraints EXCEPT !.startLocation = 3]}

----------------------------------------------------------------------------
(* The builder, one loop iteration at a time *)

BuilderUnchanged ==
    UNCHANGED <<pIn, pOut, contextVars, userPreferences, profileStore, recommendations,
                nextItineraryId, responses, userTokens, nodeEnv, redisEnabled,
                feedbackCalls, lastCall, learnerVars>>

\* createOptimizedItinerary is called: the locals before the loop
BuildCall ==
    /\ bPc = "idle"
    /\ bSt' = LoopInit(bIn.cands, bIn)
    /\ bPc' = "loop"
    /\ UNCHANGED bIn
    /\ BuilderUnchanged

\* one iteration of the while loop
BuildIterate ==
    /\ bPc = "loop"
    /\ ~LoopExits(bSt, bIn)
    /\ bSt' = LoopBody(bSt, bIn)
    /\ UNCHANGED <<bIn, bPc>>
    /\ BuilderUnchanged

\* the loop ends and the itinerary is returned
BuildReturn ==
    /\ bPc = "loop"
    /\ LoopExits(bSt, bIn)
    /\ bPc' = "done"
    /\ UNCHANGED <<bIn, bSt>>
    /\ BuilderUnchanged

\* no learner task is under way
LearnersAbsent ==
    /\ learnerRuns = <<>>
    /\ learnedRows = <<>>
    /\ profileDocs = <<>>
    /\ feedbackRows = <<>>
    /\ destinationCache = <<>>

SystemIdle ==
    /\ LearnersAbsent
    /\ userPreferences = [k \in UserIds |-> NoRecord]
    /\ profileStore = NoProfile
    /\ recommendations = <<>>
    /\ nextItineraryId = 1
    /\ responses = <<>>
    /\ userTokens = {}
    /\ nodeEnv = "development"
    /\ redisEnabled = FALSE
    /\ feedbackCalls = 0
    /\ lastCall = NoCall

InitBuild ==
    /\ \E shapes \in CandidateLists, w \in Windows,
          loc \in {NoLocation, 1}, mode \in {"walking", "driving"} :
          bIn = [cands |-> Numbered(shapes), startTime |-> w[1], endTime |-> w[2],
                 startLocation |-> loc, transportMode |-> mode]
    /\ bSt = IdleLoop
    /\ bPc = "idle"
    /\ pIn = NoPreferenceInput
    /\ pOut = NaN
    /\ ContextIdle
    /\ SystemIdle

NextBuild == BuildCall \/ BuildIterate \/ BuildReturn

SpecBuild == InitBuild /\ [][NextBuild]_vars

\* an iteration of the loop can be taken: ENABLED <<BuildIterate>>_vars, an
\* iteration always shortening the pool
IterateEnabled == bPc = "loop" /\ ~LoopExits(bSt, bIn)

\* WF_vars(BuildIterate), with IterateEnabled for its ENABLED
IterateRuns == ([]<>(~IterateEnabled)) \/ ([]<><<BuildIterate>>_vars)

\* createOptimizedItinerary is a synchronous function: once called it runs
\* its loop until it returns, so a step of it is taken whenever one can be
SpecBuildRuns ==
    SpecBuild /\ WF_vars(BuildCall) /\ IterateRuns /\ WF_vars(BuildReturn)

----------------------------------------------------------------------------
(* calculatePreferenceScore on drawn inputs *)

PreferenceInputs ==
    [destination : [categories : SUBSET Categories,
                    costLevel : {Undefined, 1, 3, 5},
                    visitDuration : {Undefined, 45, 60, 90, 120, 180, 200}],
     preferences : [categories : SUBSET Categories,
                    excludedActivities : {{}, {"museums"}, {"parks"}},
                    costLevel : {Undefined, 1, 3},
                    activityLevel : {"none", "relaxed", "moderate", "active"}]]

\* calculatePreferenceScore is applied to the drawn destination and profile
ScorePreference ==
    /\ pOut = NaN
    /\ pOut' = calculatePreferenceScore(pIn.destination, pIn.preferences)
    /\ UNCHANGED <<bIn, bSt, bPc, pIn, contextVars, userPreferences, profileStore,
                   recommendations, nextItineraryId, responses, userTokens,
                   nodeEnv, redisEnabled, feedbackCalls, lastCall, learnerVars>>

InitPref ==
    /\ pIn \in PreferenceInputs
    /\ pOut = NaN
    /\ ContextIdle
    /\ bIn = Idle
    /\ bSt = IdleLoop
    /\ bPc = "idle"
    /\ SystemIdle

NextPref == ScorePreference

SpecPref == InitPref /\ [][NextPref]_vars

----------------------------------------------------------------------------
(* The methods of the context filter on drawn inputs *)

\* the longest list of events given to applySpecialEventsAdjustments
MaxEvents == 2

WeatherInputs ==
    {[NoContextInput EXCEPT !.method = "weather", !.weather = w,
                            !.destination.attributes = a] :
        w \in {"sunny", "rainy", "cold", "hot", "cloudy", "snow", "foggy"},
        a \in SUBSET {"indoor", "museum", "outdoor", "park"}}

TimeOfDayInputs ==
    {[NoContextInput EXCEPT !.method = "timeOfDay", !.timeOfDay = t[1],
                            !.destination.attributes = a,
                            !.destination.type = t[2],
                            !.destination.bestTimeOfDay = t[3]] :
        t \in {"morning", "afternoon", "evening"} \X {"none", "museum", "bar"}
                \X {"none", "morning"},
        a \in SUBSET {"museum", "park", "bar"}}

DayOfWeekInputs ==
    {[NoContextInput EXCEPT !.method = "dayOfWeek", !.dayOfWeek = t[1],
                            !.destination.attributes = a,
                            !.destination.type = t[2]] :
        t \in {0, 2, 6} \X {"none", "museum", "market"},
        a \in SUBSET {"park", "museum", "popularOnWeekends", "lessCrowdedWeekdays"}}

SeasonInfos ==
    {NoSeasonInfo,
     [present |-> TRUE, rating |-> 5, isPeak |-> TRUE, isOff |-> FALSE],
     [present |-> TRUE, rating |-> 3, isPeak |-> FALSE, isOff |-> FALSE],
     [present |-> TRUE, rating |-> Undefined, isPeak |-> FALSE, isOff |-> TRUE]}

SeasonInputs ==
    {[NoContextInput EXCEPT !.method = "season", !.season = t[1],
                            !.destination.attributes = a,
                            !.destination.seasonInfo = t[2]] :
        t \in {"spring", "summer", "fall", "winter"} \X SeasonInfos,
        a \in SUBSET {"park", "outdoor", "indoor"}}

\* the events of a context: where the event is held (9: at no destination
\* of the list), its location, its categories
Events ==
    [destinationId : {1, 9}, location : {NoLocation, 3, 8},
     categories : {{}, {"museums"}}]

EventLists == UNION {[1..n -> Events] : n \in 1..MaxEvents}

EventsInputs ==
    {[NoContextInput EXCEPT !.method = "events", !.events = e,
                            !.destination.destinationId = 1,
                            !.destination.location = loc,
                            !.destination.categories = {"museums"}] :
        e \in EventLists, loc \in {NoLocation, 2}}

TimeConstraintInputs ==
    {[NoContextInput EXCEPT !.method = "availableTime", !.availableTime = t[1],
                            !.destination.visitDuration = t[2]] :
        t \in {60, 120} \X {Undefined, 45, 83, 84, 90, 108, 109, 120, 121, 150,
                            151, 180, 181, 200}}

ContextInputs ==
    WeatherInputs \cup TimeOfDayInputs \cup DayOfWeekInputs \cup SeasonInputs
        \cup EventsInputs \cup TimeConstraintInputs

ContextFrame ==
    UNCHANGED <<bIn, bSt, bPc, pIn, pOut, cIn, userPreferences, profileStore,
                recommendations, nextItineraryId, responses, userTokens,
                nodeEnv, redisEnabled, feedbackCalls, lastCall, learnerVars>>

\* applyContextualAdjustments with context.weather
ApplyWeatherAdjustments ==
    /\ cIn.method = "weather"
    /\ cOut = NotAdjusted
    /\ cOut' = applyWeatherAdjustments(cIn.destination, cIn.weather)
    /\ ContextFrame

\* applyContextualAdjustments with context.timeOfDay
ApplyTimeOfDayAdjustments ==
    /\ cIn.method = "timeOfDay"
    /\ cOut = NotAdjusted
    /\ cOut' = applyTimeOfDayAdjustments(cIn.destination, cIn.timeOfDay)
    /\ ContextFrame

\* applyContextualAdjustments with context.dayOfWeek
ApplyDayOfWeekAdjustments ==
    /\ cIn.method = "dayOfWeek"
    /\ cOut = NotAdjusted
    /\ cOut' = applyDayOfWeekAdjustments(cIn.destination, cIn.dayOfWeek)
    /\ ContextFrame

\* applyContextualAdjustments with context.season
ApplySeasonAdjustments ==
    /\ cIn.method = "season"
    /\ cOut = NotAdjusted
    /\ cOut' = applySeasonAdjustments(cIn.destination, cIn.season)
    /\ ContextFrame

\* applyContextualAdjustments with context.events, a list that is not empty
ApplySpecialEventsAdjustments ==
    /\ cIn.method = "events"
    /\ cOut = NotAdjusted
    /\ cOut' = applySpecialEventsAdjustments(cIn.destination, cIn.events)
    /\ ContextFrame

\* applyContextualAdjustments with context.availableTime
ApplyTimeConstraintAdjustments ==
    /\ cIn.method = "availableTime"
    /\ cOut = NotAdjusted
    /\ cOut' = applyTimeConstraintAdjustments(cIn.destination, cIn.availableTime)
    /\ ContextFrame

InitContext ==
    /\ cIn \in ContextInputs
    /\ cOut = NotAdjusted
    /\ bIn = Idle
    /\ bSt = IdleLoop
    /\ bPc = "idle"
    /\ pIn = NoPreferenceInput
    /\ pOut = NaN
    /\ SystemIdle

NextContext ==
    \/ ApplyWeatherAdjustments
    \/ ApplyTimeOfDayAdjustments
    \/ ApplyDayOfWeekAdjustments
    \/ ApplySeasonAdjustments
    \/ ApplySpecialEventsAdjustments
    \/ ApplyTimeConstraintAdjustments

SpecContext == InitContext /\ [][NextContext]_vars

----------------------------------------------------------------------------
(* The service: its requests and the learner task *)

CoreIdle ==
    UNCHANGED <<bIn, bSt, bPc, pIn, pOut, contextVars, nodeEnv, redisEnabled, learnerVars>>

\* the requests of generateRecommendations: a location, a window, a
\* category filter ({}: none), whether the token can be stored, whether the
\* profile service answers, the destinations the destination service answers for
GenerateRequests ==
    [location : {0, 3, 40}, window : {<<<<10, 30>>, <<13, 30>>>>},
     filter : {{}, {"parks"}}, storable : {TRUE}, answers : BOOLEAN,
     up : UpChoices]

\* POST generateRecommendations
GenerateRecommendations ==
    /\ nextItineraryId <= MaxItineraries
    /\ \E u \in Users, r \in GenerateRequests :
          LET out == generateOutcome(convertedUserId(u), r.location, r.window[1],
                                     r.window[2], "walking", r.filter, r.answers, r.up)
          IN  /\ userTokens' = storeUserToken(userTokens, u, r.storable)
              /\ lastCall' = out.call
              /\ recommendations' = recommendations \o out.rows
              /\ nextItineraryId' = IF out.stored THEN nextItineraryId + 1
                                    ELSE nextItineraryId
              /\ responses' = IF out.stored THEN Append(responses, out.call.items)
                              ELSE responses
    /\ UNCHANGED <<userPreferences, profileStore, feedbackCalls>>
    /\ CoreIdle

\* POST refineItinerary
RefineItinerary ==
    /\ \E u \in Users, itineraryId \in 1..MaxItineraries,
          removed \in {{}, {2}, {1, 3}, DestinationIds},
          constraints \in ConstraintChoices,
          mode \in {"none", "driving"}, storable \in {TRUE}, up \in UpChoices :
          \E order \in OrdersByPosition(recommendations,
                          ItineraryRowIndexes(recommendations, convertedUserId(u),
                                              itineraryId)) :
            LET found == [k \in DOMAIN order |-> recommendations[order[k]]]
                out == refineOutcome(convertedUserId(u), itineraryId, found,
                                     removed, constraints, mode, up)
            IN  /\ userTokens' = storeUserToken(userTokens, u, storable)
                /\ lastCall' = out.call
                /\ recommendations' = out.rows
    /\ UNCHANGED <<userPreferences, profileStore, nextItineraryId, responses,
                   feedbackCalls>>
    /\ CoreIdle

\* the bodies of saveFeedback: a rating and a status
FeedbackBodies ==
    {<<5, "completed">>, <<Undefined, "accepted">>, <<Undefined, "rejected">>}

\* POST saveFeedback on the row at index i (0: no such recommendation)
SaveFeedback ==
    /\ feedbackCalls < MaxFeedback
    /\ \E u \in Users, i \in 0..Len(recommendations), body \in FeedbackBodies :
          LET rating == body[1]
              status == body[2]
              call == [NoCall EXCEPT !.op = "feedback", !.userId = convertedUserId(u)]
          IN  IF i = 0 \/ recommendations[i].userId # convertedUserId(u)
              THEN /\ lastCall' = [call EXCEPT !.status = 404,
                                      !.message = "Recommendation not found"]
                   /\ UNCHANGED recommendations
              ELSE /\ lastCall' = [call EXCEPT !.status = 200,
                                      !.itineraryId = recommendations[i].itineraryId]
                   /\ recommendations' = saveFeedbackRows(recommendations, i,
                                                          rating, status)
    /\ feedbackCalls' = feedbackCalls + 1
    /\ UNCHANGED <<userPreferences, profileStore, nextItineraryId, responses,
                   userTokens>>
    /\ CoreIdle

\* the runs of the learner: the user of the message, whether the stored
\* token is still valid, which services answer, whether the profile service
\* accepts the update and what its store does with an undefined field.  A
\* choice that a run does not get to is listed once.
LearnRuns ==
    {r \in [key : UserIds, tokenLive : BOOLEAN, answers : BOOLEAN, up : UpChoices,
            accepted : BOOLEAN, keepsUndefined : BOOLEAN] :
        /\ ~r.tokenLive =>
              r.answers /\ r.up = DestinationIds /\ r.accepted /\ r.keepsUndefined
        /\ ~r.accepted => r.keepsUndefined}

\* the task tasks.update_user_features
UpdateUserFeatures ==
    /\ \E r \in LearnRuns :
          LET key == r.key
              out == learnOutcome(key, r.tokenLive, r.answers, r.up, r.accepted,
                                  r.keepsUndefined)
          IN  /\ lastCall' = [NoCall EXCEPT !.op = "learn", !.userId = key,
                                 !.message = out.result,
                                 !.preferences = out.preferences,
                                 !.sums = IF out.adjustments = <<>> THEN <<>>
                                          ELSE out.adjustments[1].sums]
              /\ userPreferences' =
                    IF out.result = "updated"
                    THEN [userPreferences EXCEPT ![key] = out.row]
                    ELSE userPreferences
              /\ profileStore' = out.doc
    /\ UNCHANGED <<recommendations, nextItineraryId, responses, userTokens,
                   feedbackCalls>>
    /\ CoreIdle

\* updateUserFeaturesTask({userId}) of tasks/updateFeatures.js, the task
\* without tokens: with no feedback it answers updated = false; else it
\* asks for the profile and then for the destinations through
\* destinationService, a name the file does not import: the task throws,
\* as it does when the profile request throws.  It never gets to
\* calculateUpdatedPreferences or to the cache.
updateFeaturesOutcome(key) ==
    IF FeedbackHistory(recommendations, key, Len(recommendations)) = <<>>
    THEN "no_feedback"
    ELSE "error"

UpdateFeaturesTask ==
    /\ \E key \in UserIds :
          lastCall' = [NoCall EXCEPT !.op = "features", !.userId = key,
                          !.message = updateFeaturesOutcome(key)]
    /\ UNCHANGED <<userPreferences, profileStore, recommendations,
                   nextItineraryId, responses, userTokens, feedbackCalls>>
    /\ CoreIdle

\* the contexts of the requests that score destinations
ScoringContexts ==
    {[timeOfDay |-> "morning", weather |-> "sunny", availableTime |-> 180],
     [timeOfDay |-> "none", weather |-> "rain", availableTime |-> 60]}

\* a direct call of scoringService.scoreDestinations(userId,
\* destinationIds, context, authToken)
ScoreCall(idLists) ==
    /\ \E key \in {convertedUserId(u) : u \in Users}, answers \in BOOLEAN,
          up \in {DestinationIds, DestinationIds \ {2}},
          ids \in idLists,
          context \in ScoringContexts :
          LET scoring == scoreDestinations(userPreferences[key], profileStore,
                                           answers, nodeEnv, ids, up, context)
              call == [NoCall EXCEPT !.op = "score", !.userId = key, !.asked = ids,
                          !.source = scoring.source]
          IN  lastCall' =
                IF scoring.error
                THEN [call EXCEPT !.status = 500,
                         !.message = "Invalid response from profile service"]
                ELSE [call EXCEPT !.status = 200,
                         !.preferences = scoring.preferences,
                         !.ranked = IdsOf(scoring.list),
                         !.items = scoring.list]
    /\ UNCHANGED <<userPreferences, profileStore, recommendations,
                   nextItineraryId, responses, userTokens, feedbackCalls>>
    /\ CoreIdle

ScoreDestinations == ScoreCall({<<1, 2, 3>>, <<>>})

\* The tables at start: no recommendation and no learned preference; the
\* profile service holds one of ProfileChoices.  user_tokens is keyed by the
\* id a token carried, which may be the id that recommendations of the user
\* are stored under: it holds a row under that key, or none.  REDIS_ENABLED
\* is false (its default).
Init ==
    /\ bIn = Idle
    /\ bSt = IdleLoop
    /\ bPc = "idle"
    /\ pIn = NoPreferenceInput
    /\ pOut = NaN
    /\ ContextIdle
    /\ userPreferences = [k \in UserIds |-> NoRecord]
    /\ profileStore \in ProfileChoices
    /\ recommendations = <<>>
    /\ nextItineraryId = 1
    /\ responses = <<>>
    /\ userTokens \in SUBSET {convertedUserId(u) : u \in Users}
    /\ nodeEnv \in {"development", "production"}
    /\ redisEnabled = FALSE
    /\ feedbackCalls = 0
    /\ lastCall = NoCall
    /\ LearnersAbsent

Next ==
    \/ GenerateRecommendations
    \/ SaveFeedback
    \/ UpdateUserFeatures
    \/ UpdateFeaturesTask
    \/ ScoreDestinations

Spec == Init /\ [][Next]_vars

\* the scoring operations alone: scoreDestinations on any list of ids and
\* ContentFilter.scoreDestinations, with either setting of REDIS_ENABLED
MaxIds == 2

IdLists ==
    {ids \in UNION {[1..n -> DestinationIds] : n \in 0..MaxIds} :
        \A a, b \in DOMAIN ids : a # b => ids[a] # ids[b]}

ScoreAnyIds == ScoreCall(IdLists)

\* the answers of GET /api/users/:id/preferences
PreferenceResponses ==
    {NoResponse,
     [ok |-> TRUE, categories |-> {"museums"}, budgetLevel |-> 2,
      pacePreference |-> "active", earlyRiser |-> FALSE, nightOwl |-> TRUE],
     [ok |-> TRUE, categories |-> {}, budgetLevel |-> Undefined,
      pacePreference |-> "none", earlyRiser |-> TRUE, nightOwl |-> FALSE]}

\* ContentFilter.scoreDestinations(userId, destinations)
ContentScoreDestinations ==
    /\ \E key \in {convertedUserId(u) : u \in Users},
          response \in PreferenceResponses,
          ids \in {<<1, 2, 3>>, <<3, 1>>, <<>>} :
          LET destinations == [k \in 1..Len(ids) |-> Catalogue[ids[k]]]
              scoring == contentScoreDestinations(userPreferences[key],
                                                  response, destinations)
          IN  /\ userPreferences' = [userPreferences EXCEPT ![key] = scoring.row]
              /\ lastCall' = [NoCall EXCEPT !.op = "content", !.userId = key,
                                 !.asked = ids, !.status = 200,
                                 !.source = scoring.source,
                                 !.ranked = IdsOf(scoring.list),
                                 !.items = scoring.list]
    /\ UNCHANGED <<profileStore, recommendations, nextItineraryId, responses,
                   userTokens, feedbackCalls>>
    /\ CoreIdle

InitScore ==
    /\ bIn = Idle
    /\ bSt = IdleLoop
    /\ bPc = "idle"
    /\ pIn = NoPreferenceInput
    /\ pOut = NaN
    /\ ContextIdle
    /\ userPreferences = [k \in UserIds |-> NoRecord]
    /\ profileStore \in ProfileChoices
    /\ recommendations = <<>>
    /\ nextItineraryId = 1
    /\ responses = <<>>
    /\ userTokens = {}
    /\ nodeEnv \in {"development", "production"}
    /\ redisEnabled \in BOOLEAN
    /\ feedbackCalls = 0
    /\ lastCall = NoCall
    /\ LearnersAbsent

NextScore == ScoreAnyIds \/ ContentScoreDestinations

SpecScore == InitScore /\ [][NextScore]_vars

\* generation and refinement alone, for one profile
InitRefine ==
    /\ Init
    /\ profileStore = NoProfile
    /\ nodeEnv = "development"
    /\ userTokens = {}

NextRefine ==
    \/ GenerateRecommendations
    \/ RefineItinerary

SpecRefine == InitRefine /\ [][NextRefine]_vars

----------------------------------------------------------------------------
(* Learner tasks of two users, one await at a time *)

\* two users, each with rows of feedback, a stored token of their own and
\* documents of their own in the profile service
Learners == {"u1", "u2"}

\* a row with feedback, as far as the learner reads it
FeedbackRow(d, status) == [destinationId |-> d, status |-> status]

FeedbackChoices ==
    {<<>>,
     <<FeedbackRow(1, "accepted")>>,
     <<FeedbackRow(2, "accepted"), FeedbackRow(1, "accepted")>>}

\* what the services do for a task: whether the stored token is valid,
\* whether the profile service answers, the destinations the destination
\* service answers for, whether the profile service accepts the update
RunInputs ==
    [tokenLive : BOOLEAN, answers : BOOLEAN,
     up : {DestinationIds, DestinationIds \ {2}}, accepted : BOOLEAN]

\* a task before its first step
NewRun(inputs, row, doc) ==
    [pc |-> "token", inputs |-> inputs, result |-> "none",
     history |-> <<>>, fetched |-> {}, preferences |-> FallbackPreferences,
     adjustments |-> <<>>, startRow |-> row, startDoc |-> doc]

\* the ids of a feedback history: the key of its cache entry is
\* destinations:<the ids, sorted and joined>
HistoryIds(history) == {history[k].destinationId : k \in 1..Len(history)}

\* the row UserPreference.upsert stores
LearnedRow(row, adjustments) ==
    [present |-> TRUE,
     categories |-> adjustments.categories,
     costLevel |-> adjustments.costLevel,
     activityLevel |-> adjustments.activityLevel,
     timeOfDay |-> row.timeOfDay,
     source |-> "derived"]

Finish(u, result) ==
    learnerRuns' = [learnerRuns EXCEPT ![u].pc = "done", ![u].result = result]

Goto(u, pc) == learnerRuns' = [learnerRuns EXCEPT ![u].pc = pc]

OthersIdle ==
    UNCHANGED <<bIn, bSt, bPc, pIn, pOut, contextVars, userPreferences, profileStore,
                recommendations, nextItineraryId, responses, userTokens,
                nodeEnv, redisEnabled, feedbackCalls, lastCall, feedbackRows>>

\* UserToken.findOne
LearnToken ==
    /\ \E u \in Learners :
          /\ learnerRuns[u].pc = "token"
          /\ IF learnerRuns[u].inputs.tokenLive
             THEN Goto(u, "feedback")
             ELSE Finish(u, "no_valid_token")
    /\ UNCHANGED <<learnedRows, profileDocs, destinationCache>>
    /\ OthersIdle

\* Recommendation.findAll
LearnFeedback ==
    /\ \E u \in Learners :
          /\ learnerRuns[u].pc = "feedback"
          /\ learnerRuns' =
                IF feedbackRows[u] = <<>>
                THEN [learnerRuns EXCEPT ![u].pc = "done",
                                         ![u].result = "no_feedback"]
                ELSE [learnerRuns EXCEPT ![u].pc = "destinations",
                                         ![u].history = feedbackRows[u]]
    /\ UNCHANGED <<learnedRows, profileDocs, destinationCache>>
    /\ OthersIdle

\* destinationService.getDestinationDetails: with REDIS_ENABLED the list
\* stored under the key of the ids when there is one; else the
\* destinations the service answers for, stored under the key when the
\* list is not empty
LearnDestinations ==
    /\ \E u \in Learners :
          LET ids == HistoryIds(learnerRuns[u].history)
              hit == redisEnabled /\ ids \in DOMAIN destinationCache
              got == IF hit THEN destinationCache[ids]
                     ELSE learnerRuns[u].inputs.up \cap ids
          IN  /\ learnerRuns[u].pc = "destinations"
              /\ learnerRuns' = [learnerRuns EXCEPT ![u].pc = "profile",
                                                    ![u].fetched = got]
              /\ destinationCache' =
                    IF redisEnabled /\ ~hit /\ got # {}
                    THEN [k \in DOMAIN destinationCache \cup {ids} |->
                            IF k = ids THEN got ELSE destinationCache[k]]
                    ELSE destinationCache
    /\ UNCHANGED <<learnedRows, profileDocs>>
    /\ OthersIdle

\* profileService.getUserProfile with the token of the user, then
\* calculatePreferenceAdjustments
LearnProfile ==
    /\ \E u \in Learners :
          LET run == learnerRuns[u]
              prof == getUserProfile(profileDocs[u], run.inputs.answers, nodeEnv)
          IN  /\ run.pc = "profile"
              /\ learnerRuns' =
                    IF ~prof.ok
                    THEN [learnerRuns EXCEPT ![u].pc = "done", ![u].result = "error"]
                    ELSE [learnerRuns EXCEPT
                            ![u].pc = "put",
                            ![u].preferences = prof.preferences,
                            ![u].adjustments =
                                <<calculatePreferenceAdjustments(
                                      run.history, run.fetched, prof.preferences)>>]
    /\ UNCHANGED <<learnedRows, profileDocs, destinationCache>>
    /\ OthersIdle

\* updateUserPreferencesInProfileService with the token of the user
LearnPut ==
    /\ \E u \in Learners, keepsUndefined \in BOOLEAN :
          /\ learnerRuns[u].pc = "put"
          /\ profileDocs' =
                [profileDocs EXCEPT ![u] =
                    updateUserPreferencesInProfileService(
                        @, learnerRuns[u].adjustments[1],
                        learnerRuns[u].inputs.accepted, keepsUndefined)]
          /\ Goto(u, "upsert")
    /\ UNCHANGED <<learnedRows, destinationCache>>
    /\ OthersIdle

\* UserPreference.upsert({userId, ...preferenceAdjustments})
LearnUpsert ==
    /\ \E u \in Learners :
          /\ learnerRuns[u].pc = "upsert"
          /\ learnedRows' =
                [learnedRows EXCEPT ![u] =
                    LearnedRow(@, learnerRuns[u].adjustments[1])]
          /\ Finish(u, "updated")
    /\ UNCHANGED <<profileDocs, destinationCache>>
    /\ OthersIdle

\* One task for each user has been queued; the cache is empty.
InitLearn ==
    /\ bIn = Idle
    /\ bSt = IdleLoop
    /\ bPc = "idle"
    /\ pIn = NoPreferenceInput
    /\ pOut = NaN
    /\ ContextIdle
    /\ userPreferences = [k \in UserIds |-> NoRecord]
    /\ profileStore = NoProfile
    /\ recommendations = <<>>
    /\ nextItineraryId = 1
    /\ responses = <<>>
    /\ userTokens = {}
    /\ nodeEnv = "development"
    /\ redisEnabled \in BOOLEAN
    /\ feedbackCalls = 0
    /\ lastCall = NoCall
    /\ feedbackRows \in [Learners -> FeedbackChoices]
    /\ profileDocs \in [Learners -> ProfileChoices \ {NoProfile}]
    /\ learnedRows = [u \in Learners |-> NoRecord]
    /\ destinationCache = <<>>
    /\ \E inputs \in [Learners -> RunInputs] :
          learnerRuns = [u \in Learners |->
                            NewRun(inputs[u], learnedRows[u], profileDocs[u])]

NextLearn ==
    \/ LearnToken
    \/ LearnFeedback
    \/ LearnDestinations
    \/ LearnProfile
    \/ LearnPut
    \/ LearnUpsert

SpecLearn == InitLearn /\ [][NextLearn]_vars

----------------------------------------------------------------------------
(* Properties of the itinerary builder *)

\* the minutes of an "HH:MM" string of an item, NaN for "NaN:NaN"
MinutesOf(t) == IF t[1] = NaN THEN NaN ELSE timeToMinutes(t)

\* the itinerary createOptimizedItinerary has returned
Returned == bPc = "done"

\* the ids of the stops of an itinerary
StopIds(items) ==
    {items[k].destinationId : k \in {j \in 1..Len(items) : items[j].type = "stop"}}

\* C1: every item of a returned itinerary, its last item included, ends at
\* or before the end of the window.
C1_EndsWithinWindow ==
    Returned =>
        \A k \in 1..Len(bSt.itinerary) :
            Le(MinutesOf(bSt.itinerary[k].endTime), endMinutes(bIn))

\* a returned itinerary with a stop and a break whose last item ends exactly
\* at the end of the window
C1_Witness ==
    /\ Returned
    /\ Len(bSt.itinerary) >= 2
    /\ \E k \in 1..Len(bSt.itinerary) : bSt.itinerary[k].type = "break"
    /\ MinutesOf(bSt.itinerary[Len(bSt.itinerary)].endTime) = endMinutes(bIn)

NoneFitsAtStart ==
    \A k \in 1..Len(bIn.cands) :
        ~PassesFilter(bIn.cands[k], bIn.startLocation,
                      timeToMinutes(TimeOr(bIn.startTime, DefaultStart)),
                      endMinutes(bIn), bIn.transportMode)

\* C10: the builder returns the empty itinerary when it is given no candidate
\* or when no candidate fits, and when it stops with candidates left it
\* returns the stops made so far: every candidate is either a stop of the
\* itinerary or still among the remaining ones, none is both, and none of
\* the remaining ones fits.
C10_EmptyOrPartial ==
    Returned =>
        /\ NoneFitsAtStart => bSt.itinerary = <<>>
        /\ StopIds(bSt.itinerary) \cup StopIds([k \in 1..Len(bSt.remaining) |->
                   [type |-> "stop", destinationId |-> bSt.remaining[k].destinationId]])
              = {bIn.cands[k].destinationId : k \in 1..Len(bIn.cands)}
        /\ Cardinality(StopIds(bSt.itinerary)) + Len(bSt.remaining) = Len(bIn.cands)
        /\ \A k \in 1..Len(bSt.remaining) :
              bSt.remaining[k].destinationId \notin StopIds(bSt.itinerary)

\* the builder returned a partial itinerary: stops were made and candidates
\* are left of which none fits
C10_Witness ==
    /\ Returned
    /\ bSt.itinerary # <<>>
    /\ bSt.remaining # <<>>
    /\ \A k \in 1..Len(bSt.remaining) :
          ~PassesFilter(bSt.remaining[k], bSt.currentLocation, bSt.currentTime,
                        endMinutes(bIn), bIn.transportMode)

----------------------------------------------------------------------------
(* Properties of calculatePreferenceScore *)

\* calculatePreferenceScore has been applied to pIn
Scored1 == pOut # NaN

\* C7: the preference score is in [0, 1] for every destination and profile.
C7_ScoreInUnitInterval ==
    Scored1 => pOut >= 0 /\ pOut <= ScoreUnit

\* a cost-level difference of 4 with an excluded category and no overlap:
\* the sum is below 0 and the score returned is 0
C7_Witness ==
    /\ Scored1
    /\ pIn.destination.costLevel = 5
    /\ pIn.preferences.costLevel = 1
    /\ pIn.destination.categories \cap pIn.preferences.categories = {}
    /\ pIn.destination.categories \cap pIn.preferences.excludedActivities # {}
    /\ rawPreferenceScore(pIn.destination, pIn.preferences) < 0
    /\ pOut = 0

\* the categories of the destination that the user likes
LikedMatches(destination, preferences) ==
    destination.categories \cap preferences.categories

\* every liked category of the scored destination is excluded, and there is one
OnlyMatchExcluded ==
    /\ LikedMatches(pIn.destination, pIn.preferences) # {}
    /\ LikedMatches(pIn.destination, pIn.preferences)
          \subseteq pIn.preferences.excludedActivities

\* the destinations of the same cost level and visit duration as the scored
\* one that have no liked category and no excluded category
PlainTwins ==
    {d \in [categories : SUBSET Categories,
            costLevel : {pIn.destination.costLevel},
            visitDuration : {pIn.destination.visitDuration}] :
        /\ LikedMatches(d, pIn.preferences) = {}
        /\ d.categories \cap pIn.preferences.excludedActivities = {}}

\* C8: a destination whose only liked category is excluded scores no higher
\* than any destination of the same cost level and visit duration that has
\* no liked category and no excluded category.
C8_ExcludedVetoDominance ==
    (Scored1 /\ OnlyMatchExcluded) =>
        \A d \in PlainTwins : pOut <= calculatePreferenceScore(d, pIn.preferences)

\* a scored destination whose one category is liked and excluded, with a
\* score above 0, and a twin without overlap or exclusion to compare with
C8_Witness ==
    /\ Scored1
    /\ OnlyMatchExcluded
    /\ Cardinality(pIn.destination.categories) = 1
    /\ pOut > 0
    /\ \E d \in PlainTwins : d.categories # {} /\ pOut < calculatePreferenceScore(d, pIn.preferences)

----------------------------------------------------------------------------
(* Properties of refineItinerary *)

\* the stored rows of the itinerary of a request
StoredRows(key, itineraryId) ==
    ItineraryRowIndexes(recommendations, key, itineraryId)

\* removed covers every destination of the stored itinerary
CoversStored(removed, key, itineraryId) ==
    /\ StoredRows(key, itineraryId) # {}
    /\ \A i \in StoredRows(key, itineraryId) :
          recommendations[i].destinationId \in removed

\* the last request was a refinement that removed nothing and added no
\* constraint, answered with every destination fetched
PlainRefinement ==
    /\ lastCall.op = "refine"
    /\ lastCall.status = 200
    /\ lastCall.removed = {}
    /\ ~lastCall.constrained
    /\ lastCall.mode = "none"
    /\ Len(lastCall.ranked) = Len(lastCall.asked)

\* C3: a refinement that removes nothing and adds no constraint returns the
\* sequence of items that generateRecommendations returned for the itinerary.
C3_PlainRefinementReproduces ==
    PlainRefinement => lastCall.items = responses[lastCall.itineraryId]

\* C4: a refinement whose removedDestinations covers every destination of
\* the stored itinerary is answered 400 'Cannot refine itinerary with all
\* destinations removed', the builder is not run, and no stored
\* recommendation changes.
C4_FailsFastAllRemoved ==
    [][(/\ lastCall'.op = "refine"
        /\ CoversStored(lastCall'.removed, lastCall'.userId, lastCall'.itineraryId))
       => (/\ lastCall'.status = 400
           /\ lastCall'.message = "Cannot refine itinerary with all destinations removed"
           /\ ~lastCall'.built
           /\ lastCall'.items = <<>>
           /\ recommendations' = recommendations)]_vars

\* a stored itinerary of two or more stops was refined with all of them removed
C4_Witness ==
    /\ lastCall.op = "refine"
    /\ Cardinality(StoredRows(lastCall.userId, lastCall.itineraryId)) >= 2
    /\ CoversStored(lastCall.removed, lastCall.userId, lastCall.itineraryId)
    /\ lastCall.status = 400

----------------------------------------------------------------------------
(* Properties of scoreDestinations *)

\* the last request scored destinations: scoreDestinations resolved a profile
ScoringCall ==
    /\ lastCall.op \in {"score", "generate"}
    /\ lastCall.source # "none"

\* C5: when the user has no learned profile and the profile service does not
\* give one, scoreDestinations still returns a ranking; the request does not
\* end in an error.
C5_RanksWithoutPreferences ==
    (/\ ScoringCall
     /\ ~userPreferences[lastCall.userId].present
     /\ lastCall.source \in {"fallback", "error"})
    => lastCall.status = 200

\* C6 as stated: whenever a learned record exists for the user it is the
\* profile scoreDestinations scores with.
C6_LearnedWheneverPresent ==
    (ScoringCall /\ userPreferences[lastCall.userId].present)
    => lastCall.source = "learned"

\* the profile made of a row of user_preferences
LearnedProfile(row) ==
    [categories |-> row.categories, costLevel |-> row.costLevel,
     activityLevel |-> row.activityLevel, excludedActivities |-> {}]

\* C6: scoreDestinations scores with the learned record exactly when there
\* is one with a category in it, and then without the profile service: it
\* answers whether or not the profile service does.  With no record, or one
\* of no category, the profile of the profile service is used.
C6_LearnedWhenHasCategories ==
    ScoringCall =>
        LET row == userPreferences[lastCall.userId]
        IN  IF row.present /\ row.categories # {}
            THEN /\ lastCall.source = "learned"
                 /\ lastCall.status = 200
                 /\ lastCall.preferences = LearnedProfile(row)
            ELSE lastCall.source \in {"profile", "fallback", "error"}

\* destinations were scored with a learned record
C6_Witness ==
    /\ ScoringCall
    /\ lastCall.status = 200
    /\ lastCall.source = "learned"
    /\ lastCall.ranked # <<>>
    /\ userPreferences[lastCall.userId].source = "derived"

----------------------------------------------------------------------------
(* Properties of the builder's loop *)

\* score - travelTime * DISTANCE_PENALTY_FACTOR of a candidate, from loc
PenalisedScore(dest, loc, mode) ==
    dest.score - estimateTravelTime(loc, dest.location, mode) * DISTANCE_PENALTY_FACTOR

\* currentTime + travelTime + visitDuration <= endTime for a candidate
Fits(dest, st) ==
    Le(Add(Add(st.currentTime,
               estimateTravelTime(st.currentLocation, dest.location, bIn.transportMode)),
           dest.visitDuration),
       endMinutes(bIn))

\* C17: when the builder returns, no remaining candidate fits: there is no
\* remaining c with currentTime + travelTime(currentLocation, c)
\* + c.visitDuration <= endTime.
C17_StopsOnlyWhenNoneFits ==
    Returned => \A k \in 1..Len(bSt.remaining) : ~Fits(bSt.remaining[k], bSt)

\* the stop a step of the loop appends, when it appends one
AppendsStop == bPc = "loop" /\ Len(bSt'.itinerary) > Len(bSt.itinerary)

ChosenIndexes ==
    {k \in 1..Len(bSt.remaining) :
        bSt.remaining[k].destinationId
            = bSt'.itinerary[Len(bSt.itinerary) + 1].destinationId}

\* C18: a stop that is appended is a remaining candidate that fits and whose
\* score - travelTime * DISTANCE_PENALTY_FACTOR, with the travel time from
\* the current location, is the greatest among the remaining ones that fit.
C18_PicksBestFitting ==
    [][AppendsStop =>
         /\ bSt'.itinerary[Len(bSt.itinerary) + 1].type = "stop"
         /\ \E k \in ChosenIndexes :
               /\ Fits(bSt.remaining[k], bSt)
               /\ bSt'.remaining = Splice(bSt.remaining, k)
               /\ \A j \in 1..Len(bSt.remaining) :
                     Fits(bSt.remaining[j], bSt) =>
                        PenalisedScore(bSt.remaining[k], bSt.currentLocation,
                                       bIn.transportMode)
                        >= PenalisedScore(bSt.remaining[j], bSt.currentLocation,
                                          bIn.transportMode)]_vars

\* the first stop is a candidate of score 0 chosen before one of a higher
\* score that fitted too: the travel penalty decided
C18_Witness ==
    /\ bPc = "loop"
    /\ Len(bSt.itinerary) >= 1
    /\ bSt.itinerary[1].score = 0
    /\ \E k \in 1..Len(bIn.cands) :
          /\ bIn.cands[k].score > 0
          /\ Fits(bIn.cands[k], LoopInit(bIn.cands, bIn))

\* C19: after every stop whose end is in the hours 11 to 13 and is 60
\* minutes or more before the end of the window, the last stop included,
\* the next item is a 60-minute break that starts when the stop ends.
C19_BreakAfterEveryStop ==
    \A k \in 1..Len(bSt.itinerary) :
        (/\ bSt.itinerary[k].type = "stop"
         /\ shouldAddBreak(MinutesOf(bSt.itinerary[k].endTime))
         /\ Le(Add(MinutesOf(bSt.itinerary[k].endTime), breakDuration), endMinutes(bIn)))
        => /\ k < Len(bSt.itinerary)
           /\ bSt.itinerary[k + 1].type = "break"
           /\ bSt.itinerary[k + 1].startTime = bSt.itinerary[k].endTime
           /\ bSt.itinerary[k + 1].duration = breakDuration

\* the indexes of the breaks of the itinerary
BreakIndexes == {k \in 1..Len(bSt.itinerary) : bSt.itinerary[k].type = "break"}

\* C20 as stated: a returned itinerary holds at most one break.
C20_AtMostOneBreak ==
    Returned => Cardinality(BreakIndexes) <= 1

\* C20: a returned itinerary holds at most one break after each stop: every
\* break comes right after a stop, starts when that stop ends, in the hours
\* 11 to 13, lasts 60 minutes and ends within the window.
C20_OneBreakPerStop ==
    Returned =>
        \A k \in BreakIndexes :
            /\ k > 1
            /\ bSt.itinerary[k - 1].type = "stop"
            /\ bSt.itinerary[k].startTime = bSt.itinerary[k - 1].endTime
            /\ (MinutesOf(bSt.itinerary[k].startTime) \div 60) \in 11..13
            /\ MinutesOf(bSt.itinerary[k].endTime)
                  = MinutesOf(bSt.itinerary[k].startTime) + 60
            /\ Le(MinutesOf(bSt.itinerary[k].endTime), endMinutes(bIn))

\* a returned itinerary with two breaks
C20_Witness ==
    Returned /\ Cardinality(BreakIndexes) >= 2

----------------------------------------------------------------------------
(* Properties of the order of scoreDestinations *)

\* the place of an id in a list of distinct ids
PlaceIn(ids, d) == CHOOSE k \in 1..Len(ids) : ids[k] = d

\* C14: scoreDestinations returns the destinations by non-increasing final
\* score, and those of equal final score in the order in which the caller
\* gave their ids.
C14_SortedTiesInCallerOrder ==
    (lastCall.op = "score" /\ lastCall.status = 200) =>
        \A k \in 1..(Len(lastCall.items) - 1) :
            /\ lastCall.items[k].score >= lastCall.items[k + 1].score
            /\ lastCall.items[k].score = lastCall.items[k + 1].score =>
                  PlaceIn(lastCall.asked, lastCall.items[k].destinationId)
                  < PlaceIn(lastCall.asked, lastCall.items[k + 1].destinationId)

----------------------------------------------------------------------------
(* Properties of the stores under scoring *)

\* C16: no scoring operation writes to a user's preference profile: a call
\* of scoringService.scoreDestinations or ContentFilter.scoreDestinations
\* leaves the rows of user_preferences and the preferences of the profile
\* service as they were.
C16_ScoringWritesNoPreferences ==
    [][(ScoreAnyIds \/ ContentScoreDestinations)
          => (userPreferences' = userPreferences /\ profileStore' = profileStore)]_vars

----------------------------------------------------------------------------
(* Properties of candidates without a location *)

\* C15: a candidate whose record lacks a location is skipped: it is never a
\* stop of the itinerary the builder returns.
C15_NoLocationNeverStop ==
    Returned =>
        \A k \in 1..Len(bIn.cands) :
            bIn.cands[k].location = NoLocation =>
                bIn.cands[k].destinationId \notin StopIds(bSt.itinerary)

----------------------------------------------------------------------------
(* Properties of the learner *)

\* the learner has run for lastCall.userId and stored new preferences
Learned == lastCall.op = "learn" /\ lastCall.message = "updated"

\* the categories whose accumulated feedback sum is positive
PositiveCategories == {c \in DOMAIN lastCall.sums : lastCall.sums[c] > 0}

\* C11: after a run of the learner over a feedback history that is not
\* empty, the stored categories are the categories of positive accumulated
\* sum, or the categories the run started from when no sum is positive; when
\* the run started from some category, the stored set is not empty.
C11_PositiveOrPrevious ==
    Learned =>
        LET stored == userPreferences[lastCall.userId].categories
        IN  /\ stored = IF PositiveCategories # {} THEN PositiveCategories
                        ELSE lastCall.preferences.categories
            /\ lastCall.preferences.categories # {} => stored # {}

\* a run over rejected feedback alone: no sum is positive and the categories
\* the run started from are kept
C11_Witness ==
    /\ Learned
    /\ DOMAIN lastCall.sums # {}
    /\ PositiveCategories = {}
    /\ lastCall.preferences.categories # {}
    /\ userPreferences[lastCall.userId].categories = lastCall.preferences.categories

\* a run of the learner for a user with no accepted, rejected or completed
\* feedback
LearnsWithoutFeedback ==
    /\ lastCall'.op \in {"learn", "features"}
    /\ FeedbackHistory(recommendations, lastCall'.userId, Len(recommendations)) = <<>>

\* the run has changed neither the learned preferences nor the profile
\* service
WritesNothing == userPreferences' = userPreferences /\ profileStore' = profileStore

\* C12: a run of the learner for a user with no accepted, rejected or
\* completed feedback answers success with updated = false, raises no error
\* and writes nothing to user_preferences or to the profile service.
C12_NoFeedbackSucceedsUnchanged ==
    [][LearnsWithoutFeedback =>
          (lastCall'.message = "no_feedback" /\ WritesNothing)]_vars

\* C12, amended: such a run raises no error and writes nothing; the task
\* without tokens answers success with updated = false; the task that works
\* with the stored token answers so only when a token of the user is
\* stored, and answers success = false with the reason no_valid_token when
\* none is.
C12_NoFeedbackWritesNothing ==
    [][LearnsWithoutFeedback =>
          /\ lastCall'.message \in {"no_feedback", "no_valid_token"}
          /\ lastCall'.op = "features" => lastCall'.message = "no_feedback"
          /\ (lastCall'.op = "learn" /\ lastCall'.message = "no_feedback")
                => lastCall'.userId \in userTokens
          /\ (lastCall'.op = "learn" /\ lastCall'.userId \notin userTokens)
                => lastCall'.message = "no_valid_token"
          /\ WritesNothing]_vars

\* a run for a user with a valid token and no feedback has answered
\* updated = false
C12_Witness ==
    /\ lastCall.op = "learn"
    /\ lastCall.message = "no_feedback"
    /\ lastCall.userId \in userTokens
    /\ FeedbackHistory(recommendations, lastCall.userId, Len(recommendations)) = <<>>

----------------------------------------------------------------------------
(* Properties of learner tasks of two users *)

\* a step of the task of u leaves the learned row and the document of every
\* other user as they were
OwnWritesOnly ==
    \A u \in Learners :
        learnerRuns'[u] # learnerRuns[u] =>
            \A v \in Learners \ {u} :
                learnedRows'[v] = learnedRows[v] /\ profileDocs'[v] = profileDocs[v]

\* the learned categories, cost level and activity level the task of u
\* stores when it runs with no other task: it asks the destination service
\* itself
AloneRow(u) ==
    LET run == learnerRuns[u]
        history == feedbackRows[u]
        prof == getUserProfile(run.startDoc, run.inputs.answers, nodeEnv)
        adjustments ==
            calculatePreferenceAdjustments(
                history, run.inputs.up \cap HistoryIds(history), prof.preferences)
    IN  IF run.inputs.tokenLive /\ history # <<>> /\ prof.ok
        THEN LearnedRow(run.startRow, adjustments)
        ELSE run.startRow

AllDone == \A u \in Learners : learnerRuns[u].pc = "done"

\* C13: in any interleaving of the learner tasks of two users, a task writes
\* the preference state of its own user alone, and when both are done the
\* learned preferences of each user are those its task stores when it runs
\* alone.
C13_TasksDoNotInterfere ==
    /\ [][OwnWritesOnly]_vars
    /\ [](AllDone => \A u \in Learners : learnedRows[u] = AloneRow(u))

----------------------------------------------------------------------------
(* Properties of the preference score, by its terms *)

\* the destination and the profile scored have a cost level, the
\* destination a visit duration and the profile an activity level
FullyDescribed ==
    /\ pIn.destination.costLevel # Undefined
    /\ pIn.preferences.costLevel # Undefined
    /\ pIn.destination.visitDuration # Undefined
    /\ pIn.preferences.activityLevel # "none"

\* the visit duration is in the band of the activity level
InBand(level, duration) ==
    CASE level = "relaxed" -> duration > 120
      [] level = "moderate" -> 60 <= duration /\ duration <= 180
      [] level = "active" -> duration < 120
      [] OTHER -> FALSE

\* 0.5 + 0.3 * overlap - 0.4 if excluded - 0.1 * cost difference + 0.1 if in
\* the band
SumOfTerms(d, p) ==
    LET tenth == ScoreUnit \div 10
        overlap == IF d.categories = {} THEN 0
                   ELSE (3 * tenth * Cardinality(d.categories \cap p.categories))
                        \div Cardinality(d.categories)
    IN  (5 * tenth) + overlap
        - (IF d.categories \cap p.excludedActivities # {} THEN 4 * tenth ELSE 0)
        - (tenth * Abs(d.costLevel - p.costLevel))
        + (IF InBand(p.activityLevel, d.visitDuration) THEN tenth ELSE 0)

\* the scenario: liked {museums}, cost 3, moderate; destination {museums},
\* cost 3, 90 minutes
MuseumScenario ==
    /\ pIn.destination = [categories |-> {"museums"}, costLevel |-> 3,
                          visitDuration |-> 90]
    /\ pIn.preferences.categories = {"museums"}
    /\ pIn.preferences.excludedActivities = {}
    /\ pIn.preferences.costLevel = 3
    /\ pIn.preferences.activityLevel = "moderate"

\* C21: for a destination and a profile with cost levels, a visit duration
\* and an activity level, calculatePreferenceScore is the sum of its terms
\* clamped to [0, 1]; in the scenario it is 0.9.
C21_ScoreIsClampedSum ==
    (Scored1 /\ FullyDescribed) =>
        /\ pOut = (LET x == SumOfTerms(pIn.destination, pIn.preferences)
                   IN  IF x < 0 THEN 0 ELSE IF x > ScoreUnit THEN ScoreUnit ELSE x)
        /\ MuseumScenario => pOut = (9 * ScoreUnit) \div 10

\* the scenario has been scored
C21_Witness == Scored1 /\ MuseumScenario /\ pOut = (9 * ScoreUnit) \div 10

\* a profile with no liked category, no excluded activity, and the default
\* cost level and activity level or none
EmptyProfile ==
    /\ pIn.preferences.categories = {}
    /\ pIn.preferences.excludedActivities = {}
    /\ pIn.preferences.costLevel \in {Undefined, 3}
    /\ pIn.preferences.activityLevel \in {"none", "moderate"}

\* C22: for an empty or default profile the preference score of every
\* destination is the neutral 0.5, whatever its cost level and visit
\* duration.
C22_EmptyProfileIsNeutral ==
    (Scored1 /\ EmptyProfile) => pOut = ScoreUnit \div 2

----------------------------------------------------------------------------
(* Properties of the sums and levels the learner computes *)

\* the feedback history of the user of the last call
HistoryOfCall ==
    FeedbackHistory(recommendations, lastCall.userId, Len(recommendations))

\* the multiplier of a feedback item: -1 if rejected, rating / 3 if
\* completed with a rating stored by saveFeedback, 1 if completed without,
\* 0.5 if accepted
RatedMultiplier(row) ==
    IF row.status = "rejected" THEN -SumUnit
    ELSE IF row.status = "completed"
         THEN IF row.feedbackRating # Undefined
              THEN (row.feedbackRating * SumUnit) \div 3
              ELSE SumUnit
         ELSE SumUnit \div 2

\* C26: a run of the learner over one feedback item whose destination was
\* fetched gives every category of the destination the multiplier of the
\* item: -1 if rejected, rating / 3 if completed with a rating recorded
\* through saveFeedback, 1 if completed without a rating, 0.5 if accepted.
C26_SumsAddRatedMultiplier ==
    (Learned /\ Len(HistoryOfCall) = 1 /\ DOMAIN lastCall.sums # {}) =>
        \A c \in Catalogue[HistoryOfCall[1].destinationId].categories :
            lastCall.sums[c] = RatedMultiplier(HistoryOfCall[1])

\* C27: in a run of the learner over one feedback item whose destination
\* was fetched, a completed item moves the cost level to 0.7 * old + 0.3 *
\* the cost level of the destination; a rejected or accepted item leaves
\* cost level and activity level as the run found them.
C27_CompletedMovesLevels ==
    (Learned /\ Len(HistoryOfCall) = 1 /\ DOMAIN lastCall.sums # {}) =>
        LET old == lastCall.preferences
            stored == userPreferences[lastCall.userId]
            destination == Catalogue[HistoryOfCall[1].destinationId]
        IN  IF HistoryOfCall[1].status = "completed"
            THEN stored.costLevel * 10
                    = (7 * OrDefault(old.costLevel, 3)) + (3 * destination.costLevel)
            ELSE /\ stored.costLevel = OrDefault(old.costLevel, 3)
                 /\ stored.activityLevel = old.activityLevel

----------------------------------------------------------------------------
(* Properties of the excluded categories in scoreDestinations *)

\* the destination of the catalogue is in a category the profile of the
\* profile service excludes
ExcludedByProfile(id) ==
    /\ profileStore.hasProfile
    /\ profileStore.hasPreferences
    /\ Catalogue[id].categories \cap profileStore.excludedActivities # {}

\* C28: when the profile of the user lists an excluded category, every
\* destination of that category that scoreDestinations scored has the score
\* of preferences that exclude the category, whether the preferences in use
\* are the learned record or the profile fetched from the profile service.
C28_ExcludedAlwaysPenalised ==
    (/\ lastCall.op = "score"
     /\ lastCall.status = 200
     /\ lastCall.source \in {"learned", "profile"})
    => \A k \in 1..Len(lastCall.items) :
          ExcludedByProfile(lastCall.items[k].destinationId) =>
              \E context \in ScoringContexts :
                  lastCall.items[k].score =
                      finalScore(Catalogue[lastCall.items[k].destinationId],
                                 [lastCall.preferences EXCEPT
                                    !.excludedActivities = profileStore.excludedActivities],
                                 context)

----------------------------------------------------------------------------
(* Properties of the pool of candidates of the builder *)

\* the destinationIds of the candidates given to createOptimizedItinerary
CandidateIds == {bIn.cands[k].destinationId : k \in 1..Len(bIn.cands)}

\* the positions of the stops in an itinerary
StopPositions(items) == {k \in 1..Len(items) : items[k].type = "stop"}

\* C29: the candidates having pairwise distinct destinationIds, no two stops
\* of the returned itinerary have the same destination, and the destination
\* of every stop is one of the candidates.
C29_StopsDistinctCandidates ==
    (/\ Returned
     /\ \A j, k \in 1..Len(bIn.cands) :
           j # k => bIn.cands[j].destinationId # bIn.cands[k].destinationId)
    => /\ \A j, k \in StopPositions(bSt.itinerary) :
             j # k => bSt.itinerary[j].destinationId # bSt.itinerary[k].destinationId
       /\ \A k \in StopPositions(bSt.itinerary) :
             bSt.itinerary[k].destinationId \in CandidateIds

\* an itinerary of two stops or more was returned, and a candidate was left out
C29_Witness ==
    /\ Returned
    /\ Cardinality(StopPositions(bSt.itinerary)) >= 2
    /\ CandidateIds \ StopIds(bSt.itinerary) # {}

\* C30: createOptimizedItinerary returns for every candidate list.  Every
\* iteration of the loop that does not end it takes exactly one candidate
\* out of the pool, so that the iterations run and the candidates left are
\* never more than the candidates given.
C30_LoopTerminates ==
    /\ [][BuildIterate => Len(bSt'.remaining) = Len(bSt.remaining) - 1]_vars
    /\ [](bPc = "loop" => Len(bSt.remaining) <= Len(bIn.cands))
    /\ <>Returned

\* the loop ran once for each of three candidates and the function returned
C30_Witness ==
    /\ Returned
    /\ Len(bIn.cands) = MaxCands
    /\ bSt.remaining = <<>>
    /\ Cardinality(StopPositions(bSt.itinerary)) = MaxCands

----------------------------------------------------------------------------
(* Properties of the context filter *)

\* a method of the context filter has returned
ContextAdjusted == cOut # NotAdjusted

\* n tenths as a multiplier
Tenths(n) == n * (AdjUnit \div 10)

\* C23: the multiplier of applyTimeConstraintAdjustments is 0.8 when the
\* visit is 1 to 30 minutes longer than the available time, 0.6 when 31 to
\* 60 minutes longer, 0.3 when more than 60 minutes longer (200 minutes in
\* 120 available: 0.3), 1.2 when the visit takes 70% to 90% of the
\* available time, and 1.0 otherwise; so the penalty and the bonus are never
\* both applied.  The visit duration is that of the destination, 60 when it
\* has none.
C23_TimeConstraintMultiplier ==
    (ContextAdjusted /\ cIn.method = "availableTime") =>
        LET visit == OrDefault(cIn.destination.visitDuration, 60)
            over == visit - cIn.availableTime
        IN  /\ cOut.scoreAdjustment =
                  IF over >= 1 /\ over <= 30 THEN Tenths(8)
                  ELSE IF over >= 31 /\ over <= 60 THEN Tenths(6)
                  ELSE IF over > 60 THEN Tenths(3)
                  ELSE IF /\ 10 * visit >= 7 * cIn.availableTime
                          /\ 10 * visit <= 9 * cIn.availableTime
                       THEN Tenths(12)
                       ELSE Tenths(10)
            /\ (cIn.availableTime = 120 /\ visit = 200)
                  => cOut.scoreAdjustment = Tenths(3)

\* a visit of 200 minutes with 120 minutes available got the multiplier 0.3
C23_Witness ==
    /\ ContextAdjusted
    /\ cIn.method = "availableTime"
    /\ cIn.availableTime = 120
    /\ cIn.destination.visitDuration = 200
    /\ cOut.scoreAdjustment = Tenths(3)

\* C24: whatever the dimension of the context, a multiplier more than
\* 0.1 away from 1.0 adds one entry to the reasoning, and the entry has a
\* magnitude, moderate when the multiplier is at most 0.3 away from 1.0 and
\* strong otherwise, and a polarity, positive when the multiplier is above
\* 1 and negative otherwise.  Rainy weather and the attribute indoor give
\* 1.4, a strong positive entry.
C24_SignificantHasMagnitudeAndPolarity ==
    ContextAdjusted =>
        LET m == cOut.scoreAdjustment
            deviation == Abs(m - AdjUnit)
        IN  /\ deviation > Tenths(1) =>
                  /\ Len(cOut.contextFactors) = 1
                  /\ cOut.contextFactors[1].magnitude =
                        IF deviation <= Tenths(3) THEN "moderate" ELSE "strong"
                  /\ cOut.contextFactors[1].impact =
                        IF m > AdjUnit THEN "positive" ELSE "negative"
            /\ (/\ cIn.method = "weather"
                 /\ cIn.weather = "rainy"
                 /\ cIn.destination.attributes = {"indoor"})
                  => /\ m = Tenths(14)
                     /\ cOut.contextFactors[1].magnitude = "strong"
                     /\ cOut.contextFactors[1].impact = "positive"

\* the factor of the first class that an event matches: held at the
\* destination 1.5, held within 1 km of it 1.2, of one of its categories
\* 1.1, none of them 1.0; in tenths
FirstMatchFactor(event, destination) ==
    IF event.destinationId = destination.destinationId THEN 15
    ELSE IF /\ event.location # NoLocation
            /\ destination.location # NoLocation
            /\ Abs(event.location - destination.location) * LocUnitMetres < 1000
         THEN 12
         ELSE IF event.categories \cap destination.categories # {} THEN 11
              ELSE 10

\* the product of the first-match factors of events[i..]
RECURSIVE FirstMatchProduct(_, _, _)
FirstMatchProduct(events, i, destination) ==
    IF i > Len(events) THEN AdjUnit
    ELSE Times(FirstMatchProduct(events, i + 1, destination),
               FirstMatchFactor(events[i], destination))

\* C25: the multiplier of applySpecialEventsAdjustments is the product, over
\* all the events of the list, of the factor of the first class the event
\* matches: no event gives two factors, and an event held at the destination
\* does not keep the events after it from giving theirs.
C25_ProductOfFirstMatches ==
    (ContextAdjusted /\ cIn.method = "events") =>
        cOut.scoreAdjustment = FirstMatchProduct(cIn.events, 1, cIn.destination)
====
